---- MODULE Spec2Model ----
(***************************************************************************)
(* Stock-quantity consistency and sequential-ID subsystem of the inventory *)
(* back office: the product ledger (models/productModel.js), the stock     *)
(* movement engine (models/movementModel.js) and the invoice controller    *)
(* (controllers/invoiceCon.js, models/invoiceModel.js) over one document   *)
(* store.  Every request is a process whose steps are the awaits of its    *)
(* handler; the store's documents are the shared state.                    *)
(***************************************************************************)
EXTENDS Integers, Sequences, FiniteSets, TLC

VARIABLES
  products,   \* collection "products": id -> document
  movements,  \* collection "stockMovements": id -> document (existing ones)
  invoices,   \* collection "invoices": id -> document (existing ones)
  counters,   \* collection "counters": kind -> [exists, count]
  now,        \* wall clock, in hours
  reqs,       \* slot -> the request running in it (its locals and position)
  nops,       \* requests started so far
  faults,     \* store failures that may still be injected
  issued      \* history: the sequential ids issued, in issuance order

vars == <<products, movements, invoices, counters, now, reqs, nops, faults, issued>>

-----------------------------------------------------------------------------
(* Bounds of the model *)

MaxInitQty == 2     \* largest quantity a product is created with
MaxQty == 2         \* largest quantity on a request line
MaxLines == 2       \* most lines in one request
MaxOps == 3         \* most requests in one behaviour
MaxInFlight == 2    \* most overlapping requests
MaxTicks == 3       \* most clock advances in one behaviour
MaxFaults == 1      \* most injected store failures in one behaviour

(* Program constants *)

WindowHours == 24       \* deleteMovement: hoursDiff > 24
MovIdWidth == 6         \* getNextMovementId: padStart(6, '0')
ProdIdWidth == 3        \* getNextProductId: padStart(3, '0')
InvIdWidth == 3         \* generateInvoiceId: padStart(3, '0')
TickHours == 12         \* granularity of the model's clock

Slots == 1..MaxInFlight

-----------------------------------------------------------------------------
(* Identifiers: a prefix and a suffix of base-36 digits (0..9 the decimal  *)
(* digits, 10..35 the letters a..z).                                       *)

Max(a, b) == IF a >= b THEN a ELSE b

RECURSIVE Digits(_, _)
\* Number.prototype.toString(base): most significant digit first
Digits(n, base) ==
  IF n < base THEN <<n>> ELSE Append(Digits(n \div base, base), n % base)

RECURSIVE Zeros(_)
Zeros(k) == IF k <= 0 THEN <<>> ELSE <<0>> \o Zeros(k - 1)

\* String.prototype.padStart(width, '0')
PadStart(ds, width) == Zeros(width - Len(ds)) \o ds

MkId(prefix, suffix) == [prefix |-> prefix, suffix |-> suffix]

\* `${prefix}${count.toString().padStart(width, '0')}`
FormatId(prefix, count, width) == MkId(prefix, PadStart(Digits(count, 10), width))

RECURSIVE LeadingDecimal(_)
\* the longest run of decimal digits a suffix starts with: what (\d+) captures
LeadingDecimal(ds) ==
  IF ds = <<>> \/ Head(ds) > 9 THEN <<>> ELSE <<Head(ds)>> \o LeadingDecimal(Tail(ds))

RECURSIVE ParseInt(_)
\* parseInt(digits, 10)
ParseInt(ds) == IF ds = <<>> THEN 0 ELSE 10 * ParseInt(SubSeq(ds, 1, Len(ds) - 1)) + ds[Len(ds)]

\* Date.now().toString(36): the epoch's leading letter, then the clock reading
FallbackId(prefix, t) == MkId(prefix, <<22>> \o Digits(t, 36))

\* the number an id carries after its prefix, 0 when it carries none
SuffixNumber(id) == ParseInt(LeadingDecimal(id.suffix))

-----------------------------------------------------------------------------
(* Product documents.  A field may be absent (has* = FALSE).               *)

NoProduct ==
  [exists |-> FALSE, name |-> "", hasQ |-> FALSE, q |-> 0, hasQuantity |-> FALSE,
   quantity |-> 0, price |-> 0,
   hasExpiry |-> FALSE, expiryDate |-> 0]

\* createProduct of models/productModel.js: quantity, no q, no price
NewProduct(n) ==
  [exists |-> TRUE, name |-> "", hasQ |-> FALSE, q |-> 0, hasQuantity |-> TRUE,
   quantity |-> n, price |-> 0,
   hasExpiry |-> FALSE, expiryDate |-> 0]

\* createProduct of the other product model: q and price, no quantity
NewProductQ(n, price) ==
  [exists |-> TRUE, name |-> "", hasQ |-> TRUE, q |-> n, hasQuantity |-> FALSE,
   quantity |-> 0, price |-> price,
   hasExpiry |-> FALSE, expiryDate |-> 0]

\* a product document that carries an expiryDate
Expiring(doc, date) == [doc EXCEPT !.hasExpiry = TRUE, !.expiryDate = date]

\* name: data.name.trim()
Named(doc, name) == [doc EXCEPT !.name = name]

P1 == FormatId("prod-", 1, ProdIdWidth)
P2 == FormatId("prod-", 2, ProdIdWidth)
PX == FormatId("prod-", 9, ProdIdWidth)   \* an id no product was created with
ProductIds == {P1, P2}
InputProductIds == {P1, P2, PX}

ProductDoc(id) == IF id \in DOMAIN products THEN products[id] ELSE NoProduct

\* productData.q || 0
ReadQ(doc) == IF doc.hasQ /\ doc.q # 0 THEN doc.q ELSE 0

\* product.q || product.quantity || 0
ReadQOrQuantity(doc) ==
  IF doc.hasQ /\ doc.q # 0 THEN doc.q
  ELSE IF doc.hasQuantity /\ doc.quantity # 0 THEN doc.quantity
  ELSE 0

\* parseInt(productData.quantity || 0)
ReadQuantity(doc) == IF doc.hasQuantity /\ doc.quantity # 0 THEN doc.quantity ELSE 0

-----------------------------------------------------------------------------
(* Requests *)

NoId == MkId("", <<>>)

NoResult == [success |-> FALSE, code |-> "", errors |-> {}]

NoCounter == [exists |-> FALSE, count |-> 0]

NoInvoice ==
  [clientId |-> "", products |-> <<>>, remise |-> 0, advance |-> 0, total |-> 0,
   totalAfterDiscount |-> 0, rest |-> 0, status |-> "", hasPaid |-> FALSE, paid |-> FALSE]

\* the store as a request found it when it started (history, for the properties)
NoSnapshot == [products |-> <<>>, movements |-> <<>>, invoices |-> <<>>, counters |-> <<>>]

Snapshot == [products |-> products, movements |-> movements, invoices |-> invoices,
             counters |-> counters]

IdleReq ==
  [op |-> "idle", pc |-> "idle", type |-> "", lines |-> <<>>, target |-> NoId,
   i |-> 0, valid |-> <<>>, errors |-> {}, ledger |-> "", items |-> <<>>,
   batch |-> <<>>, results |-> <<>>, id |-> NoId, read |-> NoCounter, ts |-> 0,
   client |-> "", remise |-> 0, advance |-> 0, details |-> <<>>, inv |-> NoInvoice,
   name |-> "", amount |-> 0, since |-> 0, hasMoney |-> FALSE,
   stockManager |-> "", hasParty |-> FALSE, res |-> NoResult,
   canDelete |-> FALSE,
   pre |-> NoSnapshot]

Running(s) == reqs[s].pc # "idle"

Done(r, success, code, errors) ==
  [r EXCEPT !.pc = "done", !.res = [success |-> success, code |-> code, errors |-> errors]]

\* a store failure may be injected while the budget lasts
FailChoices == IF faults > 0 THEN {FALSE, TRUE} ELSE {FALSE}

Spend(fail) == faults' = IF fail THEN faults - 1 ELSE faults

Line(p, n) == [productId |-> p, quantity |-> n]

RECURSIVE SeqsUpTo(_, _)
\* the sequences over S of length 1..n
SeqsUpTo(S, n) ==
  IF n = 0 THEN {}
  ELSE {<<x>> : x \in S} \cup SeqsUpTo(S, n - 1)
       \cup {Append(t, x) : t \in SeqsUpTo(S, n - 1), x \in S}

InputLines == SeqsUpTo({Line(p, n) : p \in InputProductIds, n \in 1..MaxQty}, MaxLines)

-----------------------------------------------------------------------------
(* Stock ledger: addQuantitiesToProducts and removeQuantitiesFromProducts  *)

Write(p, v, both) == [productId |-> p, value |-> v, both |-> both]

ItemResult(p, ok, err, old, new) ==
  [productId |-> p, success |-> ok, error |-> err, oldQuantity |-> old, newQuantity |-> new]

\* a loop of addQuantitiesToProducts that stages its write before looking at
\* doc.exists
AddItemStagingMissing(r, item) ==
  LET doc == ProductDoc(item.productId)
      currentQuantity == ReadQ(doc)
      newQuantity == currentQuantity + item.quantity
  IN [r EXCEPT !.batch = Append(@, Write(item.productId, newQuantity, FALSE)),
               !.results = Append(@, IF doc.exists
                                     THEN ItemResult(item.productId, TRUE, "", currentQuantity, newQuantity)
                                     ELSE ItemResult(item.productId, FALSE, "Product not found", 0, 0))]

\* one pass of the loop of addQuantitiesToProducts: get, compute, stage
AddItem(r, item) ==
  LET doc == ProductDoc(item.productId)
      currentQuantity == ReadQ(doc)
      newQuantity == currentQuantity + item.quantity
  IN IF ~doc.exists
     THEN [r EXCEPT !.results = Append(@, ItemResult(item.productId, FALSE, "Product not found", 0, 0))]
     ELSE [r EXCEPT !.batch = Append(@, Write(item.productId, newQuantity, FALSE)),
                    !.results = Append(@, ItemResult(item.productId, TRUE, "", currentQuantity, newQuantity))]

\* a loop of removeQuantitiesFromProducts without the check of the stock
RemoveItemUnchecked(r, item) ==
  LET doc == ProductDoc(item.productId)
      currentQuantity == ReadQOrQuantity(doc)
      newQuantity == currentQuantity - item.quantity
  IN IF ~doc.exists
     THEN [r EXCEPT !.results = Append(@, ItemResult(item.productId, FALSE, "Product not found", 0, 0))]
     ELSE [r EXCEPT !.batch = Append(@, Write(item.productId, newQuantity, TRUE)),
                    !.results = Append(@, ItemResult(item.productId, TRUE, "", currentQuantity, newQuantity))]

\* one pass of the loop of removeQuantitiesFromProducts
RemoveItem(r, item) ==
  LET doc == ProductDoc(item.productId)
      currentQuantity == ReadQOrQuantity(doc)
      newQuantity == currentQuantity - item.quantity
  IN IF ~doc.exists
     THEN [r EXCEPT !.results = Append(@, ItemResult(item.productId, FALSE, "Product not found", 0, 0))]
     ELSE IF currentQuantity < item.quantity
     THEN [r EXCEPT !.results = Append(@, ItemResult(item.productId, FALSE, "Insufficient stock", currentQuantity, 0))]
     ELSE [r EXCEPT !.batch = Append(@, Write(item.productId, newQuantity, TRUE)),
                    !.results = Append(@, ItemResult(item.productId, TRUE, "", currentQuantity, newQuantity))]

\* batch.update(docRef, {q} or {q, quantity}) on one document
ApplyWrite(doc, w) ==
  IF w.both
  THEN [doc EXCEPT !.hasQ = TRUE, !.q = w.value, !.hasQuantity = TRUE, !.quantity = w.value]
  ELSE [doc EXCEPT !.hasQ = TRUE, !.q = w.value]

RECURSIVE ApplyBatch(_, _)
\* the writes of a batch, in the order they were staged
ApplyBatch(prods, batch) ==
  IF batch = <<>> THEN prods
  ELSE LET w == Head(batch)
       IN ApplyBatch([prods EXCEPT ![w.productId] = ApplyWrite(@, w)], Tail(batch))

\* batch.commit() rejects an update of a document that does not exist
BatchValid(batch) == \A k \in 1..Len(batch) : ProductDoc(batch[k].productId).exists

StartLedger(r, which, items, ret) ==
  [r EXCEPT !.ledger = which, !.items = items, !.i = 1, !.batch = <<>>, !.results = <<>>,
            !.pc = IF items = <<>> THEN "ledgerCommit" ELSE "ledgerGet"]

\* await docRef.get() and the rest of the loop body, for item i
LedgerGet(s) ==
  LET r == reqs[s]
      item == r.items[r.i]
      r1 == IF r.ledger = "add" THEN AddItem(r, item) ELSE RemoveItem(r, item)
      r2 == [r1 EXCEPT !.i = r.i + 1,
                       !.pc = IF r.i = Len(r.items) THEN "ledgerCommit" ELSE "ledgerGet"]
  IN /\ r.pc = "ledgerGet"
     /\ reqs' = [reqs EXCEPT ![s] = r2]
     /\ UNCHANGED <<products, movements, invoices, counters, now, nops, faults, issued>>

AnyFailed(results) == \E k \in 1..Len(results) : ~results[k].success

\* what the caller does once the ledger call returned
AfterLedger(r) ==
  CASE r.op = "createStockMovement" -> [r EXCEPT !.pc = "saveDoc", !.ts = now]
    [] r.op = "deleteMovement" ->
         IF AnyFailed(r.results)
         THEN Done(r, FALSE, "STOCK_RESTORATION_FAILED",
                   {r.results[k].error : k \in {j \in 1..Len(r.results) : ~r.results[j].success}})
         ELSE [r EXCEPT !.pc = "deleteDoc"]
    [] OTHER -> Done(r, TRUE, "", {})

\* what the caller does when the ledger call threw
LedgerThrew(r) ==
  CASE r.op = "deleteMovement" -> Done(r, FALSE, "INTERNAL_ERROR", {"commit failed"})
    [] OTHER -> Done(r, FALSE, "", {"commit failed"})

\* the value a staged write would carry if it were computed from the product
\* as it is when the batch commits
Reread(prods, ledger, item) ==
  LET doc == prods[item.productId]
  IN IF ledger = "add" THEN Write(item.productId, ReadQ(doc) + item.quantity, FALSE)
     ELSE Write(item.productId, ReadQOrQuantity(doc) - item.quantity, TRUE)

\* a ledger that reads and writes in one transaction: every write is computed at
\* the commit
LedgerCommitRereading(s) ==
  LET r == reqs[s]
      written == {k \in 1..Len(r.results) : r.results[k].success}
      fresh == [k \in 1..Len(r.batch) |->
                  Reread(products, r.ledger,
                         r.items[CHOOSE i \in written :
                                   Cardinality({j \in written : j <= i}) = k])]
  IN
  /\ r.pc = "ledgerCommit"
  /\ \E fail \in FailChoices :
       /\ Spend(fail)
       /\ IF fail \/ ~BatchValid(r.batch)
          THEN /\ products' = products
               /\ reqs' = [reqs EXCEPT ![s] = LedgerThrew(r)]
          ELSE /\ products' = ApplyBatch(products, fresh)
               /\ reqs' = [reqs EXCEPT ![s] = AfterLedger(r)]
  /\ UNCHANGED <<movements, invoices, counters, now, nops, issued>>

\* a commit that keeps the staged writes when the store fails it
LedgerCommitLeaky(s) ==
  LET r == reqs[s] IN
  /\ r.pc = "ledgerCommit"
  /\ \E fail \in FailChoices :
       /\ Spend(fail)
       /\ products' = ApplyBatch(products, r.batch)
       /\ reqs' = [reqs EXCEPT ![s] = IF fail \/ ~BatchValid(r.batch)
                                      THEN LedgerThrew(r) ELSE AfterLedger(r)]
  /\ UNCHANGED <<movements, invoices, counters, now, nops, issued>>

\* await batch.commit(), and the caller's code up to its next await
LedgerCommit(s) ==
  LET r == reqs[s] IN
  /\ r.pc = "ledgerCommit"
  /\ \E fail \in FailChoices :
       /\ Spend(fail)
       /\ IF fail \/ ~BatchValid(r.batch)
          THEN /\ products' = products
               /\ reqs' = [reqs EXCEPT ![s] = LedgerThrew(r)]
          ELSE /\ products' = ApplyBatch(products, r.batch)
               /\ reqs' = [reqs EXCEPT ![s] = AfterLedger(r)]
  /\ UNCHANGED <<movements, invoices, counters, now, nops, issued>>

-----------------------------------------------------------------------------
(* Sequential ids from a counter document: getNextMovementId and           *)
(* getNextProductId.  db.runTransaction reads the counter, and commits the  *)
(* write only if the counter is still what it read; otherwise it runs the   *)
(* transaction function again.                                              *)

CounterKind(r) == IF r.op = "createProduct" THEN "products" ELSE "stockMovements"

\* a count that is read back and not incremented
NextCountKept(counterDoc) == IF counterDoc.exists THEN counterDoc.count ELSE 1

\* let currentCount = 1; if (counterDoc.exists) currentCount = counterDoc.data().count + 1
NextCount(counterDoc) == IF counterDoc.exists THEN counterDoc.count + 1 ELSE 1

\* a commit that does not look at what the counter has become since the read
TxCommitsBlindly(read, current) == TRUE

\* the commit of the transaction goes through only on an unchanged counter
TxCanCommit(read, current) == read = current

SequentialId(kind, count) ==
  IF kind = "products" THEN FormatId("prod-", count, ProdIdWidth)
  ELSE FormatId("MOV", count, MovIdWidth)

DegradedId(kind, t) ==
  IF kind = "products" THEN FallbackId("prod-", t) ELSE FallbackId("MOV", t)

\* an issued id, with the number of ids that had been issued when its issuance
\* started (history, for the properties)
Issue(kind, id, sequential, since) ==
  [kind |-> kind, id |-> id, sequential |-> sequential, since |-> since]

\* transaction.get(counterRef)
TxRead(s) ==
  LET r == reqs[s] IN
  /\ r.pc = "txRead"
  /\ reqs' = [reqs EXCEPT ![s] = [r EXCEPT !.pc = "txCommit", !.read = counters[CounterKind(r)]]]
  /\ UNCHANGED <<products, movements, invoices, counters, now, nops, faults, issued>>

\* what the caller does with the id it was given
AfterId(r, id) ==
  CASE r.op = "createStockMovement" ->
         StartLedger([r EXCEPT !.id = id],
                     IF r.type = "stock_in" THEN "add" ELSE "remove",
                     [k \in 1..Len(r.valid) |-> Line(r.valid[k].productId, r.valid[k].quantity)],
                     "saveDoc")
    [] OTHER -> [r EXCEPT !.id = id, !.pc = "saveDoc"]

\* an issuance without its catch block: the failure of the transaction reaches
\* the caller
TxCommitRaising(s) ==
  LET r == reqs[s]
      kind == CounterKind(r)
      count == NextCount(r.read)
  IN
  /\ r.pc = "txCommit"
  /\ \E fail \in FailChoices :
       /\ Spend(fail)
       /\ IF fail
          THEN /\ reqs' = [reqs EXCEPT ![s] = Done(r, FALSE, "", {"transaction failed"})]
               /\ UNCHANGED <<counters, issued>>
          ELSE IF TxCanCommit(r.read, counters[kind])
          THEN /\ counters' = [counters EXCEPT ![kind] = [exists |-> TRUE, count |-> count]]
               /\ reqs' = [reqs EXCEPT ![s] = AfterId(r, SequentialId(kind, count))]
               /\ issued' = Append(issued, Issue(kind, SequentialId(kind, count), TRUE, r.since))
          ELSE /\ reqs' = [reqs EXCEPT ![s] = [r EXCEPT !.pc = "txRead"]]
               /\ UNCHANGED <<counters, issued>>
  /\ UNCHANGED <<products, movements, invoices, now, nops>>

\* transaction.set(counterRef, {count}) and the commit; the catch block on failure
TxCommit(s) ==
  LET r == reqs[s]
      kind == CounterKind(r)
      count == NextCount(r.read)
  IN
  /\ r.pc = "txCommit"
  /\ \E fail \in FailChoices :
       /\ Spend(fail)
       /\ IF fail
          THEN /\ reqs' = [reqs EXCEPT ![s] = AfterId(r, DegradedId(kind, now))]
               /\ issued' = Append(issued, Issue(kind, DegradedId(kind, now), FALSE, r.since))
               /\ UNCHANGED counters
          ELSE IF TxCanCommit(r.read, counters[kind])
          THEN /\ counters' = [counters EXCEPT ![kind] = [exists |-> TRUE, count |-> count]]
               /\ reqs' = [reqs EXCEPT ![s] = AfterId(r, SequentialId(kind, count))]
               /\ issued' = Append(issued, Issue(kind, SequentialId(kind, count), TRUE, r.since))
          ELSE /\ reqs' = [reqs EXCEPT ![s] = [r EXCEPT !.pc = "txRead"]]
               /\ UNCHANGED <<counters, issued>>
  /\ UNCHANGED <<products, movements, invoices, now, nops>>

-----------------------------------------------------------------------------
(* createProduct of models/productModel.js                                  *)

\* await collection.where('name', '==', data.name.trim()).get() and the throw on
\* a product of that name
QueryName(s) ==
  LET r == reqs[s]
      found == {id \in DOMAIN products : products[id].exists /\ products[id].name = r.name}
      r1 == IF found # {} THEN Done(r, FALSE, "", {"already exists"})
            ELSE [r EXCEPT !.pc = "txRead", !.since = Len(issued)]
  IN /\ r.pc = "queryName"
     /\ reqs' = [reqs EXCEPT ![s] = r1]
     /\ UNCHANGED <<products, movements, invoices, counters, now, nops, faults, issued>>

\* await collection.doc(productId).set(productData)
SaveProduct(s) ==
  LET r == reqs[s] IN
  /\ r.pc = "saveDoc"
  /\ r.op = "createProduct"
  /\ \E fail \in FailChoices :
       /\ Spend(fail)
       /\ IF fail
          THEN /\ products' = products
               /\ reqs' = [reqs EXCEPT ![s] = Done(r, FALSE, "", {"set failed"})]
          ELSE /\ products' = (r.id :> Named(NewProduct(r.amount), r.name)) @@ products
               /\ reqs' = [reqs EXCEPT ![s] = Done(r, TRUE, "", {})]
  /\ UNCHANGED <<movements, invoices, counters, now, nops, issued>>

-----------------------------------------------------------------------------
(* Stock movement engine: createStockMovement and deleteMovement           *)

MovementLine(p, n, prev, new) ==
  [productId |-> p, quantity |-> n, previousStock |-> prev, newStock |-> new]

\* the validation loop without its stock check for distributions
ValidateLineUnchecked(r, p) ==
  LET doc == ProductDoc(p.productId)
      currentStock == ReadQuantity(doc)
      newStock == IF r.type = "stock_in" THEN currentStock + p.quantity
                  ELSE currentStock - p.quantity
  IN IF p.quantity <= 0
     THEN [r EXCEPT !.errors = @ \cup {"Invalid product or quantity"}]
     ELSE IF ~doc.exists
     THEN [r EXCEPT !.errors = @ \cup {"Product not found"}]
     ELSE [r EXCEPT !.valid = Append(@, MovementLine(p.productId, p.quantity, currentStock, newStock))]

\* one pass of the validation loop of createStockMovement
ValidateLine(r, p) ==
  LET doc == ProductDoc(p.productId)
      currentStock == ReadQuantity(doc)
      newStock == IF r.type = "stock_in" THEN currentStock + p.quantity
                  ELSE currentStock - p.quantity
  IN IF p.quantity <= 0
     THEN [r EXCEPT !.errors = @ \cup {"Invalid product or quantity"}]
     ELSE IF ~doc.exists
     THEN [r EXCEPT !.errors = @ \cup {"Product not found"}]
     ELSE IF r.type = "distribution" /\ newStock < 0
     THEN [r EXCEPT !.errors = @ \cup {"Insufficient stock"}]
     ELSE [r EXCEPT !.valid = Append(@, MovementLine(p.productId, p.quantity, currentStock, newStock))]

\* a validation loop that throws at the first line in error
ValidateFailFast(s) ==
  LET r == reqs[s]
      r1 == ValidateLine(r, r.lines[r.i])
      r2 == IF r1.errors # {} THEN Done(r1, FALSE, "", r1.errors)
            ELSE IF r.i < Len(r.lines) THEN [r1 EXCEPT !.i = r.i + 1]
            ELSE [r1 EXCEPT !.pc = "txRead", !.since = Len(issued)]
  IN /\ r.pc = "validate"
     /\ reqs' = [reqs EXCEPT ![s] = r2]
     /\ UNCHANGED <<products, movements, invoices, counters, now, nops, faults, issued>>

\* await productsCollection.doc(p.productId).get() and the loop body for line i;
\* after the last line, the throw on validation errors
Validate(s) ==
  LET r == reqs[s]
      r1 == ValidateLine(r, r.lines[r.i])
      r2 == IF r.i < Len(r.lines) THEN [r1 EXCEPT !.i = r.i + 1]
            ELSE IF r1.errors # {} THEN Done(r1, FALSE, "", r1.errors)
            ELSE [r1 EXCEPT !.pc = "txRead", !.since = Len(issued)]
  IN /\ r.pc = "validate"
     /\ reqs' = [reqs EXCEPT ![s] = r2]
     /\ UNCHANGED <<products, movements, invoices, counters, now, nops, faults, issued>>

MovementDoc(r) == [type |-> r.type, products |-> r.valid, timestamp |-> r.ts]

\* await db.collection("stockMovements").doc(movementId).set(movementData)
SaveMovement(s) ==
  LET r == reqs[s] IN
  /\ r.pc = "saveDoc"
  /\ r.op = "createStockMovement"
  /\ \E fail \in FailChoices :
       /\ Spend(fail)
       /\ IF fail
          THEN /\ movements' = movements
               /\ reqs' = [reqs EXCEPT ![s] = Done(r, FALSE, "", {"set failed"})]
          ELSE /\ movements' = (r.id :> MovementDoc(r)) @@ movements
               /\ reqs' = [reqs EXCEPT ![s] = Done(r, TRUE, "", {})]
  /\ UNCHANGED <<products, invoices, counters, now, nops, issued>>

\* a window that closes at exactly 24 hours
TooOldInclusive(timestamp, t) == t - timestamp >= WindowHours

\* hoursDiff > 24
TooOld(timestamp, t) == t - timestamp > WindowHours

\* a deletion that does not look whether the document exists
GetMovementUnchecked(s) ==
  LET r == reqs[s]
      exists == r.target \in DOMAIN movements
      movement == movements[r.target]
      r1 == IF ~exists THEN [r EXCEPT !.pc = "deleteDoc"]
            ELSE IF TooOld(movement.timestamp, now) THEN Done(r, FALSE, "MOVEMENT_TOO_OLD", {})
            ELSE StartLedger([r EXCEPT !.type = movement.type, !.valid = movement.products],
                             IF movement.type = "stock_in" THEN "remove" ELSE "add",
                             [k \in 1..Len(movement.products) |->
                                Line(movement.products[k].productId, movement.products[k].quantity)],
                             "deleteDoc")
  IN /\ r.pc = "getDoc"
     /\ r.op = "deleteMovement"
     /\ reqs' = [reqs EXCEPT ![s] = r1]
     /\ UNCHANGED <<products, movements, invoices, counters, now, nops, faults, issued>>

\* await db.collection("stockMovements").doc(id).get(), the not-found and the
\* 24-hour checks, and the choice of the reversing ledger call
GetMovement(s) ==
  LET r == reqs[s]
      exists == r.target \in DOMAIN movements
      movement == movements[r.target]
      r1 == IF ~exists THEN Done(r, FALSE, "MOVEMENT_NOT_FOUND", {})
            ELSE IF TooOld(movement.timestamp, now) THEN Done(r, FALSE, "MOVEMENT_TOO_OLD", {})
            ELSE StartLedger([r EXCEPT !.type = movement.type, !.valid = movement.products],
                             IF movement.type = "stock_in" THEN "remove" ELSE "add",
                             [k \in 1..Len(movement.products) |->
                                Line(movement.products[k].productId, movement.products[k].quantity)],
                             "deleteDoc")
  IN /\ r.pc = "getDoc"
     /\ r.op = "deleteMovement"
     /\ reqs' = [reqs EXCEPT ![s] = r1]
     /\ UNCHANGED <<products, movements, invoices, counters, now, nops, faults, issued>>

Without(f, k) == [x \in DOMAIN f \ {k} |-> f[x]]

\* await db.collection("stockMovements").doc(id).delete()
DeleteMovementDoc(s) ==
  LET r == reqs[s] IN
  /\ r.pc = "deleteDoc"
  /\ r.op = "deleteMovement"
  /\ \E fail \in FailChoices :
       /\ Spend(fail)
       /\ IF fail
          THEN /\ movements' = movements
               /\ reqs' = [reqs EXCEPT ![s] = Done(r, FALSE, "INTERNAL_ERROR", {"delete failed"})]
          ELSE /\ movements' = Without(movements, r.target)
               /\ reqs' = [reqs EXCEPT ![s] = Done(r, TRUE, "", {})]
  /\ UNCHANGED <<products, invoices, counters, now, nops, issued>>

\* a deletable check whose window closes before 24 hours are reached
CanDeleteStrict(timestamp, t) == t - timestamp < WindowHours

\* checkMovementDeletable: canDelete = hoursDiff <= 24
CanDelete(timestamp, t) == t - timestamp <= WindowHours

\* the canDeleteMovement controller: canDelete = hoursDiff <= 24
CanDeleteMovement(timestamp, t) == t - timestamp <= WindowHours

\* checkMovementDeletable and the canDeleteMovement controller: await
\* db.collection("stockMovements").doc(id).get(), the not-found answer, and the
\* answer with canDelete
CheckDeletable(s) ==
  LET r == reqs[s]
      exists == r.target \in DOMAIN movements
      timestamp == movements[r.target].timestamp
      canDelete == IF r.op = "checkMovementDeletable" THEN CanDelete(timestamp, now)
                   ELSE CanDeleteMovement(timestamp, now)
      r1 == IF ~exists THEN Done(r, FALSE, "", {"Movement not found"})
            ELSE Done([r EXCEPT !.canDelete = canDelete], TRUE, "", {})
  IN /\ r.pc = "checkDeletable"
     /\ reqs' = [reqs EXCEPT ![s] = r1]
     /\ UNCHANGED <<products, movements, invoices, counters, now, nops, faults, issued>>

-----------------------------------------------------------------------------
(* Invoices: controllers/invoiceCon.js over models/invoiceModel.js         *)

Clients == {"c1"}          \* the documents of collection "clients"

InvoiceLine(p, n, price) ==
  [productId |-> p, quantity |-> n, unitPrice |-> price, total |-> price * n]

RECURSIVE SumTotals(_)
SumTotals(ls) == IF ls = <<>> THEN 0 ELSE Head(ls).total + SumTotals(Tail(ls))

\* the numbers the ids of the stored invoices carry (0 for an id with none)
InvoiceNumbers == {SuffixNumber(id) : id \in DOMAIN invoices}

SetMax(S) == CHOOSE x \in S : \A y \in S : y <= x

\* generateInvoiceId, from the invoices getAllInvoices returned
NextInvoiceCount ==
  IF DOMAIN invoices = {} THEN 1
  ELSE LET highestNumber == SetMax(InvoiceNumbers \cup {0})
       IN IF highestNumber > 0 THEN highestNumber + 1
          ELSE Cardinality(DOMAIN invoices) + 1

\* await invoiceModel.getAllInvoices() inside generateInvoiceId; its catch block
\* on failure
ScanInvoices(s) ==
  LET r == reqs[s] IN
  /\ r.pc = "scanInvoices"
  /\ \E fail \in FailChoices :
       LET id == IF fail THEN FallbackId("INV-", now)
                 ELSE FormatId("INV-", NextInvoiceCount, InvIdWidth)
       IN /\ Spend(fail)
          /\ reqs' = [reqs EXCEPT ![s] = [r EXCEPT !.pc = "saveInvoice", !.id = id]]
          /\ issued' = Append(issued, Issue("invoices", id, ~fail, Len(issued)))
  /\ UNCHANGED <<products, movements, invoices, counters, now, nops>>

\* await clientsCollection.doc(clientId).get(), then the totals
GetClient(s) ==
  LET r == reqs[s]
      r1 == IF r.client \notin Clients THEN Done(r, FALSE, "CLIENT_NOT_FOUND", {"Client not found"})
            ELSE IF r.op = "createInvoice" THEN [r EXCEPT !.pc = "scanInvoices"]
            ELSE [r EXCEPT !.pc = "checkProducts", !.i = 1]
  IN /\ r.pc = "getClient"
     /\ reqs' = [reqs EXCEPT ![s] = r1]
     /\ UNCHANGED <<products, movements, invoices, counters, now, nops, faults, issued>>

\* createInvoice: the document written for a pending invoice
PendingInvoice(r) ==
  LET lines == [k \in 1..Len(r.lines) |->
                  InvoiceLine(r.lines[k].productId, r.lines[k].quantity, r.lines[k].unitPrice)]
      total == SumTotals(lines)
      totalAfterDiscount == total - r.remise
  IN [clientId |-> r.client, products |-> lines, remise |-> r.remise, advance |-> r.advance,
      total |-> total, totalAfterDiscount |-> totalAfterDiscount,
      rest |-> totalAfterDiscount - r.advance, status |-> "pending",
      hasPaid |-> FALSE, paid |-> FALSE]

\* product.price || product.unitPrice || 0, then the line's own unitPrice
DetailPrice(doc, line) == IF doc.price # 0 THEN doc.price ELSE line.unitPrice

\* createConfirmedInvoice: the document written with the stock decrements
ConfirmedInvoice(r) ==
  LET lines == [k \in 1..Len(r.lines) |->
                  InvoiceLine(r.lines[k].productId, r.lines[k].quantity,
                              DetailPrice(r.details[k], r.lines[k]))]
      total == SumTotals(lines)
      totalAfterDiscount == total - r.remise
      rest == totalAfterDiscount - r.advance
  IN [clientId |-> r.client, products |-> lines, remise |-> r.remise, advance |-> r.advance,
      total |-> total, totalAfterDiscount |-> totalAfterDiscount,
      rest |-> rest, status |-> IF rest = 0 THEN "paid" ELSE "not paid",
      hasPaid |-> TRUE, paid |-> (rest = 0)]

\* one pass of the validation loop of createConfirmedInvoice
CheckProduct(r, item) ==
  LET doc == ProductDoc(item.productId)
      currentStock == ReadQOrQuantity(doc)
  IN IF ~doc.exists
     THEN [r EXCEPT !.errors = @ \cup {"Product not found"}]
     ELSE [r EXCEPT !.details = Append(@, doc),
                    !.errors = @ \cup (IF currentStock < item.quantity
                                       THEN {"Insufficient stock"} ELSE {})
                                 \cup (IF doc.hasExpiry /\ doc.expiryDate < now
                                       THEN {"Product has expired"} ELSE {})
                                 \cup (IF doc.price <= 0 THEN {"Invalid price"} ELSE {})]

\* await productsCollection.doc(item.productId).get() and the loop body for line i;
\* after the last line the 400 on validation errors
CheckProducts(s) ==
  LET r == reqs[s]
      r1 == CheckProduct(r, r.lines[r.i])
      r2 == IF r.i < Len(r.lines) THEN [r1 EXCEPT !.i = r.i + 1]
            ELSE IF r1.errors # {} THEN Done(r1, FALSE, "VALIDATION", r1.errors)
            ELSE [r1 EXCEPT !.pc = "scanInvoices"]
  IN /\ r.pc = "checkProducts"
     /\ reqs' = [reqs EXCEPT ![s] = r2]
     /\ UNCHANGED <<products, movements, invoices, counters, now, nops, faults, issued>>

\* createConfirmedInvoice: the decrements staged from the documents read at validation
ConfirmedBatch(r) ==
  [k \in 1..Len(r.lines) |->
     Write(r.lines[k].productId, ReadQOrQuantity(r.details[k]) - r.lines[k].quantity, FALSE)]

\* createInvoice: await invoicesCollection.doc(invoiceId).set(...);
\* createConfirmedInvoice: await batch.commit() of the decrements and the set
SaveInvoice(s) ==
  LET r == reqs[s]
      batch == IF r.op = "createInvoice" THEN <<>> ELSE ConfirmedBatch(r)
      doc == IF r.op = "createInvoice" THEN PendingInvoice(r) ELSE ConfirmedInvoice(r)
  IN
  /\ r.pc = "saveInvoice"
  /\ \E fail \in FailChoices :
       /\ Spend(fail)
       /\ IF fail \/ ~BatchValid(batch)
          THEN /\ UNCHANGED <<products, invoices>>
               /\ reqs' = [reqs EXCEPT ![s] = Done(r, FALSE, "INTERNAL_ERROR", {"commit failed"})]
          ELSE /\ products' = ApplyBatch(products, batch)
               /\ invoices' = (r.id :> doc) @@ invoices
               /\ reqs' = [reqs EXCEPT ![s] = Done([r EXCEPT !.batch = batch], TRUE, "", {})]
  /\ UNCHANGED <<movements, counters, now, nops, issued>>

\* await invoiceModel.getInvoiceById(id), and what confirmInvoice and deleteInvoice
\* do with the invoice before their next await
GetInvoice(s) ==
  LET r == reqs[s]
      exists == r.target \in DOMAIN invoices
      invoice == invoices[r.target]
      r1 == [r EXCEPT !.inv = invoice, !.lines = invoice.products, !.i = 1, !.batch = <<>>]
      r2 == IF ~exists THEN Done(r, FALSE, "INVOICE_NOT_FOUND", {"Invoice not found"})
            ELSE IF r.op = "confirmInvoice"
            THEN IF invoice.status = "confirmed"
                 THEN Done(r1, FALSE, "ALREADY_CONFIRMED", {"Invoice already confirmed"})
                 ELSE [r1 EXCEPT !.pc = "checkStock"]
            ELSE IF invoice.status = "confirmed"
                 THEN [r1 EXCEPT !.pc = "restoreGet"]
                 ELSE [r1 EXCEPT !.pc = "deleteInvoiceDoc"]
  IN /\ r.pc = "getInvoice"
     /\ reqs' = [reqs EXCEPT ![s] = r2]
     /\ UNCHANGED <<products, movements, invoices, counters, now, nops, faults, issued>>

\* confirmInvoice, first loop: get the product of line i and check its stock
CheckStock(s) ==
  LET r == reqs[s]
      item == r.lines[r.i]
      doc == ProductDoc(item.productId)
      r1 == IF ~doc.exists THEN Done(r, FALSE, "PRODUCT_NOT_FOUND", {"Product not found"})
            ELSE IF ReadQOrQuantity(doc) < item.quantity
            THEN Done(r, FALSE, "INSUFFICIENT_STOCK", {"Insufficient stock"})
            ELSE IF r.i < Len(r.lines) THEN [r EXCEPT !.i = r.i + 1]
            ELSE [r EXCEPT !.pc = "stageStock", !.i = 1]
  IN /\ r.pc = "checkStock"
     /\ reqs' = [reqs EXCEPT ![s] = r1]
     /\ UNCHANGED <<products, movements, invoices, counters, now, nops, faults, issued>>

\* confirmInvoice, second loop: get the product of line i again and stage
\* q: currentStock - item.quantity
StageStock(s) ==
  LET r == reqs[s]
      item == r.lines[r.i]
      doc == ProductDoc(item.productId)
      r1 == IF ~doc.exists THEN Done(r, FALSE, "INTERNAL_ERROR", {"Product not found"})
            ELSE [r EXCEPT !.batch = Append(@, Write(item.productId,
                                                     ReadQOrQuantity(doc) - item.quantity, FALSE)),
                           !.i = r.i + 1,
                           !.pc = IF r.i < Len(r.lines) THEN "stageStock" ELSE "commitConfirm"]
  IN /\ r.pc = "stageStock"
     /\ reqs' = [reqs EXCEPT ![s] = r1]
     /\ UNCHANGED <<products, movements, invoices, counters, now, nops, faults, issued>>

\* confirmInvoice: await batch.commit() of the decrements and the status update
CommitConfirm(s) ==
  LET r == reqs[s] IN
  /\ r.pc = "commitConfirm"
  /\ \E fail \in FailChoices :
       /\ Spend(fail)
       /\ IF fail \/ ~BatchValid(r.batch) \/ r.target \notin DOMAIN invoices
          THEN /\ UNCHANGED <<products, invoices>>
               /\ reqs' = [reqs EXCEPT ![s] = Done(r, FALSE, "INTERNAL_ERROR", {"commit failed"})]
          ELSE /\ products' = ApplyBatch(products, r.batch)
               /\ invoices' = [invoices EXCEPT ![r.target].status = "confirmed"]
               /\ reqs' = [reqs EXCEPT ![s] = Done(r, TRUE, "", {})]
  /\ UNCHANGED <<movements, counters, now, nops, issued>>

\* deleteInvoice, the loop over the lines of a confirmed invoice: get the product
\* and stage q: currentStock + item.quantity in the batch
RestoreGet(s) ==
  LET r == reqs[s]
      item == r.lines[r.i]
      doc == ProductDoc(item.productId)
      r1 == IF doc.exists
            THEN [r EXCEPT !.batch = Append(@, Write(item.productId,
                                                     ReadQOrQuantity(doc) + item.quantity, FALSE))]
            ELSE r
      r2 == [r1 EXCEPT !.i = r.i + 1,
                       !.pc = IF r.i < Len(r.lines) THEN "restoreGet" ELSE "deleteInvoiceDoc"]
  IN /\ r.pc = "restoreGet"
     /\ reqs' = [reqs EXCEPT ![s] = r2]
     /\ UNCHANGED <<products, movements, invoices, counters, now, nops, faults, issued>>

\* what deleteInvoice commits of the batch it staged: the batch is built and
\* never committed, only invoiceModel.deleteInvoice(id) is awaited
DeleteInvoiceWrites(batch) == <<>>

\* await invoiceModel.deleteInvoice(id)
DeleteInvoiceDoc(s) ==
  LET r == reqs[s] IN
  /\ r.pc = "deleteInvoiceDoc"
  /\ \E fail \in FailChoices :
       /\ Spend(fail)
       /\ IF fail
          THEN /\ UNCHANGED <<products, invoices>>
               /\ reqs' = [reqs EXCEPT ![s] = Done(r, FALSE, "INTERNAL_ERROR", {"delete failed"})]
          ELSE /\ products' = ApplyBatch(products, DeleteInvoiceWrites(r.batch))
               /\ invoices' = Without(invoices, r.target)
               /\ reqs' = [reqs EXCEPT ![s] = Done(r, TRUE, "", {})]
  /\ UNCHANGED <<movements, counters, now, nops, issued>>

------------------------------------------------------------------------\* updateInvoice: currentInvoice.products.find(...) for the product of a new line,
\* and the quantity it carries (0 when the invoice has no such line)
OriginalQuantity(invoice, p) ==
  LET hits == {k \in 1..Len(invoice.products) : invoice.products[k].productId = p}
  IN IF hits = {} THEN 0
     ELSE invoice.products[CHOOSE k \in hits : \A j \in hits : k <= j].quantity

\* updateInvoice: await db.collection('invoices').doc(invoiceId).get(); without
\* data.products the stored lines and total are kept
GetInvoiceForUpdate(s) ==
  LET r == reqs[s]
      exists == r.target \in DOMAIN invoices
      invoice == invoices[r.target]
      r1 == IF ~exists THEN Done(r, FALSE, "INVOICE_NOT_FOUND", {"Invoice not found"})
            ELSE IF r.lines = <<>>
            THEN [r EXCEPT !.inv = invoice, !.valid = invoice.products, !.batch = <<>>,
                           !.pc = "commitUpdate"]
            ELSE [r EXCEPT !.inv = invoice, !.valid = <<>>, !.batch = <<>>, !.i = 1,
                           !.pc = "updateLine"]
  IN /\ r.pc = "getInvoiceForUpdate"
     /\ reqs' = [reqs EXCEPT ![s] = r1]
     /\ UNCHANGED <<products, movements, invoices, counters, now, nops, faults, issued>>

\* updateInvoice: one pass of the loop over data.products
UpdateLineOf(r, item) ==
  LET doc == ProductDoc(item.productId)
      currentStock == ReadQOrQuantity(doc)
      quantityDifference == item.quantity - OriginalQuantity(r.inv, item.productId)
      productPrice == IF item.unitPrice # 0 THEN item.unitPrice ELSE doc.price
  IN IF ~doc.exists
     THEN [r EXCEPT !.errors = @ \cup {"Product not found"}]
     ELSE IF quantityDifference > 0 /\ currentStock < quantityDifference
     THEN [r EXCEPT !.errors = @ \cup {"Insufficient stock"}]
     ELSE [r EXCEPT !.errors = @ \cup (IF productPrice <= 0 THEN {"Invalid price"} ELSE {}),
                    !.valid = Append(@, InvoiceLine(item.productId, item.quantity, productPrice)),
                    !.batch = IF quantityDifference # 0
                              THEN Append(@, Write(item.productId,
                                                   currentStock - quantityDifference, FALSE))
                              ELSE @]

\* a loop of updateInvoice that goes on to the commit whatever its lines reported
UpdateLineLenient(s) ==
  LET r == reqs[s]
      r1 == UpdateLineOf(r, r.lines[r.i])
      r2 == IF r.i < Len(r.lines) THEN [r1 EXCEPT !.i = r.i + 1]
            ELSE [r1 EXCEPT !.pc = "commitUpdate"]
  IN /\ r.pc = "updateLine"
     /\ reqs' = [reqs EXCEPT ![s] = r2]
     /\ UNCHANGED <<products, movements, invoices, counters, now, nops, faults, issued>>

\* updateInvoice: await db.collection('products').doc(productId).get() and the loop
\* body for line i; after the last line the throw on validation errors
UpdateLine(s) ==
  LET r == reqs[s]
      r1 == UpdateLineOf(r, r.lines[r.i])
      r2 == IF r.i < Len(r.lines) THEN [r1 EXCEPT !.i = r.i + 1]
            ELSE IF r1.errors # {} THEN Done(r1, FALSE, "VALIDATION", r1.errors)
            ELSE [r1 EXCEPT !.pc = "commitUpdate"]
  IN /\ r.pc = "updateLine"
     /\ reqs' = [reqs EXCEPT ![s] = r2]
     /\ UNCHANGED <<products, movements, invoices, counters, now, nops, faults, issued>>

\* an update that keeps the total of the invoice it read
UpdatedInvoiceKeepingTotal(r, stored) ==
  LET total == r.inv.total
      remise == IF r.hasMoney THEN r.remise ELSE r.inv.remise
      advance == IF r.hasMoney THEN r.advance ELSE r.inv.advance
      totalAfterDiscount == total - remise
      rest == Max(0, totalAfterDiscount - advance)
  IN [stored EXCEPT !.products = r.valid, !.total = total,
                    !.totalAfterDiscount = totalAfterDiscount, !.rest = rest,
                    !.status = IF rest = 0 THEN "paid" ELSE "not paid",
                    !.hasPaid = TRUE, !.paid = (rest = 0),
                    !.remise = IF r.hasMoney THEN remise ELSE @,
                    !.advance = IF r.hasMoney THEN advance ELSE @]

\* updateInvoice: updateData merged into the stored document
UpdatedInvoice(r, stored) ==
  LET total == IF r.lines = <<>> THEN r.inv.total ELSE SumTotals(r.valid)
      remise == IF r.hasMoney THEN r.remise ELSE r.inv.remise
      advance == IF r.hasMoney THEN r.advance ELSE r.inv.advance
      totalAfterDiscount == total - remise
      rest == Max(0, totalAfterDiscount - advance)
  IN [stored EXCEPT !.products = r.valid, !.total = total,
                    !.totalAfterDiscount = totalAfterDiscount, !.rest = rest,
                    !.status = IF rest = 0 THEN "paid" ELSE "not paid",
                    !.hasPaid = TRUE, !.paid = (rest = 0),
                    !.remise = IF r.hasMoney THEN remise ELSE @,
                    !.advance = IF r.hasMoney THEN advance ELSE @]

\* updateInvoice: await batch.commit() of the stock updates and the invoice update
CommitUpdate(s) ==
  LET r == reqs[s] IN
  /\ r.pc = "commitUpdate"
  /\ \E fail \in FailChoices :
       /\ Spend(fail)
       /\ IF fail \/ ~BatchValid(r.batch) \/ r.target \notin DOMAIN invoices
          THEN /\ UNCHANGED <<products, invoices>>
               /\ reqs' = [reqs EXCEPT ![s] = Done(r, FALSE, "INTERNAL_ERROR", {"commit failed"})]
          ELSE /\ products' = ApplyBatch(products, r.batch)
               /\ invoices' = [invoices EXCEPT ![r.target] = UpdatedInvoice(r, @)]
               /\ reqs' = [reqs EXCEPT ![s] = Done(r, TRUE, "", {})]
  /\ UNCHANGED <<movements, counters, now, nops, issued>>

\* updateInvoiceStatus: validStatuses
ValidStatuses == {"not paid", "paid"}

\* updateInvoiceStatus: await invoiceRef.get() and the 404
GetInvoiceForStatus(s) ==
  LET r == reqs[s]
      exists == r.target \in DOMAIN invoices
      r1 == IF ~exists THEN Done(r, FALSE, "INVOICE_NOT_FOUND", {"Invoice not found"})
            ELSE [r EXCEPT !.inv = invoices[r.target], !.pc = "writeStatus"]
  IN /\ r.pc = "getInvoiceForStatus"
     /\ reqs' = [reqs EXCEPT ![s] = r1]
     /\ UNCHANGED <<products, movements, invoices, counters, now, nops, faults, issued>>

\* a status update that settles the invoice by raising its advance
StatusUpdateSettling(invoiceData, status, stored) ==
  IF status = "paid"
  THEN [stored EXCEPT !.status = status, !.hasPaid = TRUE, !.paid = TRUE, !.rest = 0,
                      !.advance = invoiceData.total - invoiceData.remise]
  ELSE LET totalAfterDiscount == invoiceData.total - invoiceData.remise
           calculatedRest == totalAfterDiscount - invoiceData.advance
       IN [stored EXCEPT !.status = status, !.hasPaid = TRUE, !.paid = FALSE,
                         !.rest = Max(0, calculatedRest)]

\* updateInvoiceStatus: updateData, from the invoice read and the status asked for
StatusUpdate(invoiceData, status, stored) ==
  IF status = "paid"
  THEN [stored EXCEPT !.status = status, !.hasPaid = TRUE, !.paid = TRUE, !.rest = 0]
  ELSE LET totalAfterDiscount == invoiceData.total - invoiceData.remise
           calculatedRest == totalAfterDiscount - invoiceData.advance
       IN [stored EXCEPT !.status = status, !.hasPaid = TRUE, !.paid = FALSE,
                         !.rest = Max(0, calculatedRest)]

\* updateInvoiceStatus: await invoiceRef.update(updateData)
WriteStatus(s) ==
  LET r == reqs[s] IN
  /\ r.pc = "writeStatus"
  /\ \E fail \in FailChoices :
       /\ Spend(fail)
       /\ IF fail \/ r.target \notin DOMAIN invoices
          THEN /\ UNCHANGED invoices
               /\ reqs' = [reqs EXCEPT ![s] = Done(r, FALSE, "INTERNAL_ERROR", {"update failed"})]
          ELSE /\ invoices' = [invoices EXCEPT ![r.target] = StatusUpdate(r.inv, r.type, @)]
               /\ reqs' = [reqs EXCEPT ![s] = Done(r, TRUE, "", {})]
  /\ UNCHANGED <<products, movements, counters, now, nops, issued>>

-----
(* Requests arriving, and the clock *)

MX == FormatId("MOV", 99, MovIdWidth)    \* an id no movement was created with
IX == FormatId("INV-", 99, InvIdWidth)   \* an id no invoice was created with

UnitPrice == 10     \* the price on every product and request line

MainDocs == {NewProduct(n) : n \in 0..MaxInitQty}
PricedDocs == {NewProductQ(n, UnitPrice) : n \in 0..MaxInitQty}
StockedDocs == {NewProduct(MaxInitQty), NewProductQ(MaxInitQty, UnitPrice)}

LinesOver(ids) == SeqsUpTo({Line(p, n) : p \in ids, n \in 1..MaxQty}, MaxLines)

PricedLinesOver(ids) ==
  SeqsUpTo({[productId |-> p, quantity |-> n, unitPrice |-> UnitPrice] : p \in ids, n \in 1..MaxQty},
           MaxLines)

Idle == \A t \in Slots : ~Running(t)

CanStart(s) == ~Running(s) /\ nops < MaxOps

Begin(s, r) ==
  /\ reqs' = [reqs EXCEPT ![s] = [r EXCEPT !.pre = Snapshot]]
  /\ nops' = nops + 1
  /\ UNCHANGED <<products, movements, invoices, counters, now, faults, issued>>

MovementTypes == {"stock_in", "distribution"}

\* !data.stockManager || !data.stockManager.trim()
BlankManagers == {"", " "}

\* createStockMovement: the checks of the required fields, in their order; the
\* message of the first that throws, "" when none does
HeaderError(type, lines, stockManager, hasParty) ==
  IF type \notin MovementTypes THEN "Valid movement type is required"
  ELSE IF lines = <<>> THEN "At least one product is required"
  ELSE IF stockManager \in BlankManagers THEN "Stock manager is required"
  ELSE IF type = "distribution" /\ ~hasParty THEN "Department is required for distributions"
  ELSE IF type = "stock_in" /\ ~hasParty THEN "Supplier is required for stock in"
  ELSE ""

\* createStockMovement called with any type, lines, stockManager and with or
\* without the department (distribution) or supplier (stock_in)
StartCreateMovementWith(s, types, inputs, managers, parties) ==
  /\ CanStart(s)
  /\ \E type \in types, lines \in inputs, stockManager \in managers, hasParty \in parties :
       LET r == [IdleReq EXCEPT !.op = "createStockMovement", !.pc = "validate",
                                !.type = type, !.lines = lines, !.i = 1,
                                !.stockManager = stockManager, !.hasParty = hasParty]
           error == HeaderError(type, lines, stockManager, hasParty)
       IN Begin(s, IF error = "" THEN r ELSE Done(r, FALSE, "", {error}))

\* POST /movements: createStockMovement, with its required fields in order
StartCreateMovement(s, types, inputs) ==
  StartCreateMovementWith(s, types, inputs, {"manager"}, {TRUE})

\* DELETE /movements/:id: deleteMovement
StartDeleteMovement(s) ==
  /\ CanStart(s)
  /\ \E target \in DOMAIN movements \cup {MX} :
       Begin(s, [IdleReq EXCEPT !.op = "deleteMovement", !.pc = "getDoc", !.target = target])

\* GET /movements/:id/can-delete: checkMovementDeletable of the model and the
\* canDeleteMovement controller
StartCheckDeletable(s) ==
  /\ CanStart(s)
  /\ \E target \in DOMAIN movements \cup {MX},
        op \in {"checkMovementDeletable", "canDeleteMovement"} :
       Begin(s, [IdleReq EXCEPT !.op = op, !.pc = "checkDeletable", !.target = target])

\* an update of a movement that rewrites the stored document
StartUpdateStockMovementApplying(s) ==
  /\ CanStart(s)
  /\ \E target \in DOMAIN movements :
       /\ reqs' = [reqs EXCEPT ![s] =
            Done([IdleReq EXCEPT !.op = "updateStockMovement", !.target = target, !.pre = Snapshot],
                 TRUE, "", {})]
       /\ movements' = [movements EXCEPT ![target].products = <<>>]
       /\ nops' = nops + 1
       /\ UNCHANGED <<products, invoices, counters, now, faults, issued>>

\* PUT /movements/:movementId: the updateStockMovement controller, which answers
\* 400 without an id and 501 otherwise
StartUpdateStockMovement(s) ==
  /\ CanStart(s)
  /\ \E target \in DOMAIN movements \cup {MX, NoId} :
       Begin(s, Done([IdleReq EXCEPT !.op = "updateStockMovement", !.target = target], FALSE, "",
                     IF target = NoId THEN {"Movement ID is required"}
                     ELSE {"Update movement functionality not implemented yet"}))

\* POST /products: createProduct
StartCreateProduct(s, names) ==
  /\ CanStart(s)
  /\ \E name \in names, n \in 0..MaxQty :
       Begin(s, [IdleReq EXCEPT !.op = "createProduct", !.pc = "queryName",
                                !.name = name, !.amount = n])

\* POST /products/add-quantities: addQuantitiesToProducts
StartAddQuantities(s, ids) ==
  /\ CanStart(s)
  /\ \E lines \in LinesOver(ids) :
       Begin(s, StartLedger([IdleReq EXCEPT !.op = "addQuantities", !.lines = lines],
                            "add", lines, "done"))

\* POST /products/remove-quantities: removeQuantitiesFromProducts
StartRemoveQuantities(s, ids) ==
  /\ CanStart(s)
  /\ \E lines \in LinesOver(ids) :
       Begin(s, StartLedger([IdleReq EXCEPT !.op = "removeQuantities", !.lines = lines],
                            "remove", lines, "done"))

Money(remise, advance) == [remise |-> remise, advance |-> advance]

\* POST /invoices: createInvoice
StartCreateInvoice(s, ids, clients, money) ==
  /\ CanStart(s)
  /\ \E lines \in PricedLinesOver(ids), c \in clients, m \in money :
       Begin(s, [IdleReq EXCEPT !.op = "createInvoice", !.pc = "getClient", !.lines = lines,
                                !.client = c, !.remise = m.remise, !.advance = m.advance])

\* POST /invoices/create-confirmed: createConfirmedInvoice
StartCreateConfirmedInvoice(s, ids, clients, money) ==
  /\ CanStart(s)
  /\ \E lines \in PricedLinesOver(ids), c \in clients, m \in money :
       Begin(s, [IdleReq EXCEPT !.op = "createConfirmedInvoice", !.pc = "getClient",
                                !.lines = lines, !.client = c,
                                !.remise = m.remise, !.advance = m.advance])

\* PATCH /invoices/:id/confirm: confirmInvoice
StartConfirmInvoice(s) ==
  /\ CanStart(s)
  /\ \E target \in DOMAIN invoices \cup {IX} :
       Begin(s, [IdleReq EXCEPT !.op = "confirmInvoice", !.pc = "getInvoice", !.target = target])

\* DELETE /invoices/:id: deleteInvoice
StartDeleteInvoice(s) ==
  /\ CanStart(s)
  /\ \E target \in DOMAIN invoices \cup {IX} :
       Begin(s, [IdleReq EXCEPT !.op = "deleteInvoice", !.pc = "getInvoice", !.target = target])

\* PUT /invoices/:id: updateInvoice, with or without products, remise and advance
StartUpdateInvoice(s, inputs, money, givens) ==
  /\ CanStart(s)
  /\ \E target \in DOMAIN invoices \cup {IX}, lines \in inputs, m \in money, given \in givens :
       Begin(s, [IdleReq EXCEPT !.op = "updateInvoice", !.pc = "getInvoiceForUpdate", !.target = target,
                                !.lines = lines, !.hasMoney = given,
                                !.remise = IF given THEN m.remise ELSE 0,
                                !.advance = IF given THEN m.advance ELSE 0])

\* PATCH /invoices/:id/status: updateInvoiceStatus, with the check of the status
StartUpdateInvoiceStatus(s, statuses) ==
  /\ CanStart(s)
  /\ \E target \in DOMAIN invoices \cup {IX}, status \in statuses :
       LET r == [IdleReq EXCEPT !.op = "updateInvoiceStatus", !.pc = "getInvoiceForStatus",
                                !.target = target, !.type = status]
       IN Begin(s, IF status \in ValidStatuses THEN r
                   ELSE Done(r, FALSE, "INVALID_STATUS", {"Invalid status"}))

\* the response is sent and the request is over
Respond(s) ==
  /\ reqs[s].pc = "done"
  /\ reqs' = [reqs EXCEPT ![s] = IdleReq]
  /\ UNCHANGED <<products, movements, invoices, counters, now, nops, faults, issued>>

\* time passes
Tick ==
  /\ now < MaxTicks * TickHours
  /\ now' = now + TickHours
  /\ UNCHANGED <<products, movements, invoices, counters, reqs, nops, faults, issued>>

-----------------------------------------------------------------------------
(* Specifications *)

\* the store after the two products were created, with `f` failures to inject
\* the names of the two products the store starts with, and a name none has
InitialName(id) == IF id = P1 THEN "a" ELSE "b"
NewName == "c"

InitWith(docs, f) ==
  /\ \E chosen \in [ProductIds -> docs] :
       products = [id \in ProductIds |-> Named(chosen[id], InitialName(id))]
  /\ movements = <<>>
  /\ invoices = <<>>
  /\ counters = [products |-> [exists |-> TRUE, count |-> 2], stockMovements |-> NoCounter]
  /\ now = 0
  /\ reqs = [s \in Slots |-> IdleReq]
  /\ nops = 0
  /\ faults = f
  /\ issued = <<>>

LedgerSteps(s) == LedgerGet(s) \/ LedgerCommit(s)

IdSteps(s) == TxRead(s) \/ TxCommit(s)

CreateMovementSteps(s) == Validate(s) \/ IdSteps(s) \/ SaveMovement(s)

DeleteMovementSteps(s) == GetMovement(s) \/ DeleteMovementDoc(s)

MovementSteps(s) == CreateMovementSteps(s) \/ DeleteMovementSteps(s)

CreateProductSteps(s) == QueryName(s) \/ SaveProduct(s)

CreateInvoiceSteps(s) == GetClient(s) \/ ScanInvoices(s) \/ SaveInvoice(s)

ConfirmInvoiceSteps(s) == GetInvoice(s) \/ CheckStock(s) \/ StageStock(s) \/ CommitConfirm(s)

InvoiceSteps(s) ==
  \/ CreateInvoiceSteps(s) \/ CheckProducts(s) \/ ConfirmInvoiceSteps(s)
  \/ RestoreGet(s) \/ DeleteInvoiceDoc(s)

\* the movement engine over the ledger, one request at a time
Init == InitWith(MainDocs, 0)

Next ==
  \/ Idle /\ StartCreateMovement(1, MovementTypes, LinesOver(ProductIds))
  \/ Idle /\ StartDeleteMovement(1)
  \/ MovementSteps(1)
  \/ LedgerSteps(1)
  \/ Respond(1)

Spec == Init /\ [][Next]_vars

\* the invoice flows, one request at a time
InitInv == InitWith(StockedDocs, 0)

NextInv ==
  \/ Idle /\ StartCreateInvoice(1, ProductIds, Clients, {Money(0, 0)})
  \/ Idle /\ StartCreateConfirmedInvoice(1, ProductIds, Clients, {Money(0, 0)})
  \/ Idle /\ StartConfirmInvoice(1)
  \/ Idle /\ StartDeleteInvoice(1)
  \/ InvoiceSteps(1)
  \/ Respond(1)

SpecInv == InitInv /\ [][NextInv]_vars

\* overlapping creations of movements and products: the counter-backed ids
InitIds == InitWith({NewProduct(1)}, 0)

NextIds ==
  \E s \in Slots :
    \/ StartCreateMovement(s, {"stock_in"}, {<<Line(P1, 1)>>})
    \/ StartCreateProduct(s, {InitialName(P1), NewName})
    \/ CreateMovementSteps(s)
    \/ CreateProductSteps(s)
    \/ LedgerSteps(s)
    \/ Respond(s)

SpecIds == InitIds /\ [][NextIds]_vars

\* overlapping invoice requests and ledger calls on one product
InitRace == InitWith({NewProduct(1), NewProductQ(1, UnitPrice)}, 0)

NextRace ==
  \E s \in Slots :
    \/ StartCreateInvoice(s, {P1}, Clients, {Money(0, 0)})
    \/ StartConfirmInvoice(s)
    \/ StartRemoveQuantities(s, {P1})
    \/ CreateInvoiceSteps(s)
    \/ ConfirmInvoiceSteps(s)
    \/ LedgerSteps(s)
    \/ Respond(s)

SpecRace == InitRace /\ [][NextRace]_vars

\* the movement engine, one request at a time, with a store failure injected
InitFault == InitWith(MainDocs, MaxFaults)

NextFault ==
  \/ Idle /\ StartCreateMovement(1, MovementTypes, LinesOver({P1}))
  \/ Idle /\ StartDeleteMovement(1)
  \/ MovementSteps(1)
  \/ LedgerSteps(1)
  \/ Respond(1)

SpecFault == InitFault /\ [][NextFault]_vars

\* the movement engine with the clock running between requests
InitWindow == InitWith({NewProduct(1)}, 0)

NextWindow ==
  \/ Idle /\ StartCreateMovement(1, MovementTypes, LinesOver({P1}))
  \/ Idle /\ StartDeleteMovement(1)
  \/ Idle /\ Tick
  \/ MovementSteps(1)
  \/ LedgerSteps(1)
  \/ Respond(1)

SpecWindow == InitWindow /\ [][NextWindow]_vars

UpdateInvoiceSteps(s) == GetInvoiceForUpdate(s) \/ UpdateLine(s) \/ CommitUpdate(s)

UpdateStatusSteps(s) == GetInvoiceForStatus(s) \/ WriteStatus(s)

\* the amounts of an invoice: creations and updates with a discount and an advance
\* that stay below, reach and exceed the total of one unit
Amounts == {Money(0, 0), Money(0, UnitPrice), Money(UnitPrice, 2 * UnitPrice)}

OneUnit == {<<[productId |-> P1, quantity |-> 1, unitPrice |-> UnitPrice]>>}

InitMoney == InitWith({NewProductQ(MaxInitQty, UnitPrice)}, 0)

NextMoney ==
  \/ Idle /\ StartCreateInvoice(1, {P1}, Clients, Amounts)
  \/ Idle /\ StartCreateConfirmedInvoice(1, {P1}, Clients, Amounts)
  \/ Idle /\ StartUpdateInvoice(1, OneUnit \cup {<<>>}, Amounts, BOOLEAN)
  \/ Idle /\ StartUpdateInvoiceStatus(1, ValidStatuses \cup {"confirmed"})
  \/ CreateInvoiceSteps(1)
  \/ CheckProducts(1)
  \/ UpdateInvoiceSteps(1)
  \/ UpdateStatusSteps(1)
  \/ Respond(1)

SpecMoney == InitMoney /\ [][NextMoney]_vars

\* invoices created pending or confirmed and then edited, one request at a time
InitEdit == InitWith(StockedDocs, 0)

NextEdit ==
  \/ Idle /\ StartCreateInvoice(1, ProductIds, Clients, {Money(0, 0)})
  \/ Idle /\ StartCreateConfirmedInvoice(1, ProductIds, Clients, {Money(0, 0)})
  \/ Idle /\ StartUpdateInvoice(1, PricedLinesOver(ProductIds) \ {<<>>}, {Money(0, 0)}, {FALSE})
  \/ CreateInvoiceSteps(1)
  \/ CheckProducts(1)
  \/ UpdateInvoiceSteps(1)
  \/ Respond(1)

SpecEdit == InitEdit /\ [][NextEdit]_vars

\* the ledger called directly, one request at a time, also for an unknown product
InitLedger == InitWith(MainDocs \cup {NewProductQ(1, UnitPrice)}, 0)

NextLedger ==
  \/ Idle /\ StartAddQuantities(1, InputProductIds)
  \/ Idle /\ StartRemoveQuantities(1, InputProductIds)
  \/ LedgerSteps(1)
  \/ Respond(1)

SpecLedger == InitLedger /\ [][NextLedger]_vars

\* the ledger called directly, with a store failure injected
InitLedgerFault == InitWith(MainDocs, MaxFaults)

NextLedgerFault ==
  \/ Idle /\ StartAddQuantities(1, ProductIds)
  \/ Idle /\ StartRemoveQuantities(1, ProductIds)
  \/ LedgerSteps(1)
  \/ Respond(1)

SpecLedgerFault == InitLedgerFault /\ [][NextLedgerFault]_vars

\* createStockMovement called with every kind of bad input, one request at a time
AnyLines ==
  {<<>>} \cup SeqsUpTo({Line(p, n) : p \in {P1, PX}, n \in 0..MaxQty}, MaxLines)

InitValidate == InitWith({NewProduct(1)}, 0)

NextValidate ==
  \/ Idle /\ StartCreateMovementWith(1, MovementTypes \cup {"transfer"}, AnyLines,
                                     BlankManagers \cup {"manager"}, BOOLEAN)
  \/ CreateMovementSteps(1)
  \/ LedgerSteps(1)
  \/ Respond(1)

SpecValidate == InitValidate /\ [][NextValidate]_vars

\* the invoice flows that check their lines, called with lines that fail: an
\* unknown product or client, a product out of stock, expired or without a price
RejectDocs ==
  {NewProductQ(1, UnitPrice), Expiring(NewProductQ(1, UnitPrice), -1), NewProduct(1)}

InitReject ==
  /\ InitWith(RejectDocs, 0)
  /\ products[P2] = Named(NewProduct(1), InitialName(P2))

NextReject ==
  \/ Idle /\ StartCreateInvoice(1, {P1, PX}, Clients, {Money(0, 0)})
  \/ Idle /\ StartCreateConfirmedInvoice(1, {P1, PX}, Clients \cup {"c9"}, {Money(0, 0)})
  \/ Idle /\ StartUpdateInvoice(1, PricedLinesOver({P1, PX}), {Money(0, 0)}, {FALSE})
  \/ Idle /\ StartConfirmInvoice(1)
  \/ CreateInvoiceSteps(1)
  \/ CheckProducts(1)
  \/ UpdateInvoiceSteps(1)
  \/ ConfirmInvoiceSteps(1)
  \/ Respond(1)

SpecReject == InitReject /\ [][NextReject]_vars

\* overlapping creations and deletions, accepted and rejected, with a store
\* failure injected: the counter documents
InitCounter == InitWith({NewProduct(1)}, MaxFaults)

NextCounter ==
  \E s \in Slots :
    \/ StartCreateMovement(s, MovementTypes, {<<Line(P1, MaxQty)>>})
    \/ StartCreateProduct(s, {InitialName(P1), NewName})
    \/ StartDeleteMovement(s)
    \/ MovementSteps(s)
    \/ CreateProductSteps(s)
    \/ LedgerSteps(s)
    \/ Respond(s)

SpecCounter == InitCounter /\ [][NextCounter]_vars

\* creations of the three kinds, one request at a time, with a store failure
\* injected: the ids of the degraded form
InitDegraded == InitWith({NewProduct(1)}, MaxFaults)

NextDegraded ==
  \/ Idle /\ StartCreateMovement(1, {"stock_in"}, {<<Line(P1, 1)>>})
  \/ Idle /\ StartCreateProduct(1, {NewName})
  \/ Idle /\ StartCreateInvoice(1, {P1}, Clients, {Money(0, 0)})
  \/ Idle /\ Tick
  \/ CreateMovementSteps(1)
  \/ CreateProductSteps(1)
  \/ CreateInvoiceSteps(1)
  \/ LedgerSteps(1)
  \/ Respond(1)

SpecDegraded == InitDegraded /\ [][NextDegraded]_vars

\* overlapping stock_in movements of one product
InitOverlap == InitWith({NewProduct(1)}, 0)

NextOverlap ==
  \E s \in Slots :
    \/ StartCreateMovement(s, {"stock_in"}, {<<Line(P1, n)>> : n \in 1..MaxQty})
    \/ CreateMovementSteps(s)
    \/ LedgerSteps(s)
    \/ Respond(s)

SpecOverlap == InitOverlap /\ [][NextOverlap]_vars

\* every invoice operation that writes totals, by overlapping requests, over a
\* product whose stored price differs from the price on the request lines
InitTotals ==
  /\ InitWith({NewProductQ(MaxInitQty, 2 * UnitPrice), NewProductQ(MaxInitQty, UnitPrice)}, 0)
  /\ products[P2] = Named(NewProductQ(MaxInitQty, UnitPrice), InitialName(P2))

NextTotals ==
  \E s \in Slots :
    \/ StartCreateInvoice(s, {P1}, Clients, {Money(0, 0)})
    \/ StartCreateConfirmedInvoice(s, {P1}, Clients, {Money(0, 0)})
    \/ StartUpdateInvoice(s, PricedLinesOver({P1}), {Money(0, 0)}, {FALSE})
    \/ StartUpdateInvoiceStatus(s, ValidStatuses)
    \/ CreateInvoiceSteps(s)
    \/ CheckProducts(s)
    \/ UpdateInvoiceSteps(s)
    \/ UpdateStatusSteps(s)
    \/ Respond(s)

SpecTotals == InitTotals /\ [][NextTotals]_vars

\* movements of one unit of one product created and deleted by overlapping requests
InitReverse == InitWith({NewProduct(1)}, 0)

NextReverse ==
  \E s \in Slots :
    \/ StartCreateMovement(s, MovementTypes, {<<Line(P1, 1)>>})
    \/ StartDeleteMovement(s)
    \/ MovementSteps(s)
    \/ LedgerSteps(s)
    \/ Respond(s)

SpecReverse == InitReverse /\ [][NextReverse]_vars


\* movements created, aged, checked for deletability and deleted, one request at
\* a time
InitDeletable == InitWith({NewProduct(1)}, 0)

NextDeletable ==
  \/ Idle /\ StartCreateMovement(1, MovementTypes, {<<Line(P1, 1)>>})
  \/ Idle /\ StartDeleteMovement(1)
  \/ Idle /\ StartCheckDeletable(1)
  \/ Idle /\ Tick
  \/ MovementSteps(1)
  \/ LedgerSteps(1)
  \/ CheckDeletable(1)
  \/ Respond(1)

SpecDeletable == InitDeletable /\ [][NextDeletable]_vars

\* movements created, deleted and sent for update by overlapping requests
InitImmutable == InitWith({NewProduct(1)}, 0)

NextImmutable ==
  \E s \in Slots :
    \/ StartCreateMovement(s, MovementTypes, {<<Line(P1, 1)>>})
    \/ StartDeleteMovement(s)
    \/ StartUpdateStockMovement(s)
    \/ MovementSteps(s)
    \/ LedgerSteps(s)
    \/ Respond(s)

SpecImmutable == InitImmutable /\ [][NextImmutable]_vars

-----------------------------------------------------------------------------
(* Properties *)

DoneOp(s, op) == reqs[s].pc = "done" /\ reqs[s].op = op

\* the value v is what the product document holds as its stock, in either field
Persisted(p, v) ==
  LET doc == ProductDoc(p)
  IN (doc.hasQuantity /\ doc.quantity = v) \/ (doc.hasQ /\ doc.q = v)

\* C2: after a stock_in movement that createStockMovement reported as successful
\* (no other request interleaved), every recorded line has
\* newStock = previousStock + quantity and the product's persisted stock is newStock.
C2_StockInPersisted ==
  \A s \in Slots :
    (DoneOp(s, "createStockMovement") /\ reqs[s].res.success /\ reqs[s].type = "stock_in")
    => LET recorded == movements[reqs[s].id].products
       IN \A k \in 1..Len(recorded) :
            /\ recorded[k].newStock = recorded[k].previousStock + recorded[k].quantity
            /\ Persisted(recorded[k].productId, recorded[k].newStock)

\* a line of a distribution whose previousStock - quantity is negative
Overdraws(pre, line) ==
  ReadQuantity(pre.products[line.productId]) - line.quantity < 0

MovedBy(before, after, d) ==
  \/ ReadQuantity(after) = ReadQuantity(before) + d
  \/ ReadQ(after) = ReadQ(before) + d
  \/ ReadQOrQuantity(after) = ReadQOrQuantity(before) + d

\* C9: whenever createStockMovement persisted a movement document and returned
\* success, every line's ledger delta was applied: the movement is not recorded
\* when the ledger reported a per-item failure for one of its lines.
C9_RecordedMeansApplied ==
  \A s \in Slots :
    LET r == reqs[s] IN
    (DoneOp(s, "createStockMovement") /\ r.res.success /\ r.id \in DOMAIN movements)
    => ~AnyFailed(r.results)

\* the lines of the movement a deleteMovement request read
DeletedLines(r) == r.pre.movements[r.target].products

\* C3: when a reversal line of deleteMovement fails in the ledger, the call
\* returns STOCK_RESTORATION_FAILED, the movement document is still there and
\* the call changed no product: the reversals that succeeded are not committed.
C3_FailedReversalChangesNothing ==
  \A s \in Slots :
    LET r == reqs[s] IN
    (DoneOp(s, "deleteMovement") /\ AnyFailed(r.results))
    => /\ r.res.code = "STOCK_RESTORATION_FAILED"
       /\ r.target \in DOMAIN movements
       /\ products = r.pre.products

\* C10: a successful deleteMovement removes the movement document and moves the
\* stock of each line's product by the line's original quantity: down for a
\* stock_in movement, up for a distribution (whichever field the stock is read
\* from).
C10_DeleteReverses ==
  \A s \in Slots :
    LET r == reqs[s] IN
    (DoneOp(s, "deleteMovement") /\ r.res.success)
    => /\ r.target \notin DOMAIN movements
       /\ \A k \in 1..Len(DeletedLines(r)) :
            LET line == DeletedLines(r)[k] IN
            MovedBy(r.pre.products[line.productId], products[line.productId],
                    IF r.type = "stock_in" THEN -line.quantity ELSE line.quantity)

\* C4: deleteInvoice on a confirmed invoice leaves every product on the invoice
\* with its stock before the call plus the line quantity, and the invoice
\* document is gone; on a pending invoice it changes no product.
C4_DeleteInvoiceRestores ==
  \A s \in Slots :
    LET r == reqs[s] IN
    (DoneOp(s, "deleteInvoice") /\ r.res.success)
    => /\ r.target \notin DOMAIN invoices
       /\ r.inv.status = "pending" => products = r.pre.products
       /\ r.inv.status = "confirmed" =>
            \A k \in 1..Len(r.inv.products) :
              LET line == r.inv.products[k] IN
              MovedBy(r.pre.products[line.productId], products[line.productId], line.quantity)

\* C1: under any interleaving of overlapping requests, every product's stored
\* stock quantity is >= 0 after each committed write.
C1_StockNeverNegative ==
  \A id \in DOMAIN products : products[id].q >= 0 /\ products[id].quantity >= 0

\* C5: the invoice ids issued to two overlapping invoice creations are distinct,
\* and no invoice creation overwrites an invoice document written by another.
C5_InvoiceIdsDistinct ==
  [][/\ \A s, t \in Slots :
          (s # t /\ reqs'[s].pc = "saveInvoice" /\ reqs'[t].pc = "saveInvoice")
          => reqs'[s].id # reqs'[t].id
     /\ \A s \in Slots :
          (reqs[s].pc = "saveInvoice" /\ reqs'[s].pc = "done" /\ reqs'[s].res.success)
          => reqs[s].id \notin DOMAIN invoices]_vars

C7_RecordAndStockTogether ==
  \A s \in Slots :
    LET r == reqs[s] IN
    /\ DoneOp(s, "createStockMovement") =>
         (products # r.pre.products <=> r.id \in DOMAIN movements)
    /\ DoneOp(s, "deleteMovement") =>
         (products # r.pre.products <=>
            (r.target \in DOMAIN r.pre.movements /\ r.target \notin DOMAIN movements))

\* hours between the creation of the movement a request targets and now
Age(r) == now - r.pre.movements[r.target].timestamp

C12_RestIsClampedBalance ==
  \A id \in DOMAIN invoices :
    LET invoice == invoices[id]
    IN invoice.rest = Max(0, invoice.total - invoice.remise - invoice.advance)

\* C13: every stored invoice in the paid/not-paid lifecycle has status 'paid'
\* exactly when its rest is 0, and 'not paid' exactly when its rest is not 0.
C13_PaidIffNothingLeft ==
  \A id \in DOMAIN invoices :
    LET invoice == invoices[id]
    IN invoice.status \in {"paid", "not paid"}
       => (invoice.status = "paid" <=> invoice.rest = 0)

\* C14: confirmInvoice on an invoice whose status is not 'pending' (confirmed,
\* paid, not paid) fails and changes neither the invoice nor any product
\* quantity, so the stock of an invoice is debited at most once.
C14_ConfirmOnlyPending ==
  \A s \in Slots :
    LET r == reqs[s] IN
    (DoneOp(s, "confirmInvoice") /\ r.target \in DOMAIN r.pre.invoices
       /\ r.pre.invoices[r.target].status # "pending")
    => /\ ~r.res.success
       /\ invoices = r.pre.invoices
       /\ products = r.pre.products

\* the stock confirmInvoice reads covers every line of the invoice
CoversLines(lines) ==
  \A k \in 1..Len(lines) :
    ReadQOrQuantity(ProductDoc(lines[k].productId)) >= lines[k].quantity

\* C15: confirmInvoice writes (and succeeds) only when, at its commit, the
\* invoice is not already confirmed and every line's product has a current
\* stock of at least the line quantity, whatever other requests did between
\* its sufficiency check and its commit.
C15_ConfirmFailsCleanly ==
  [][\A s \in Slots :
       (reqs[s].op = "confirmInvoice" /\ reqs[s].pc = "commitConfirm"
          /\ reqs'[s].pc = "done" /\ reqs'[s].res.success)
       => /\ invoices[reqs[s].target].status # "confirmed"
          /\ CoversLines(reqs[s].lines)]_vars

\* C16: a successful createConfirmedInvoice decreases the stock of each line's
\* product by the line quantity and stores the invoice with total = sum of
\* quantity * unitPrice, rest = total - remise - advance and status 'paid' or
\* 'not paid' after rest; a failed one leaves products and invoices as they were.
C16_ConfirmedInvoiceDebits ==
  \A s \in Slots :
    LET r == reqs[s] IN
    DoneOp(s, "createConfirmedInvoice")
    => IF r.res.success
       THEN /\ \A k \in 1..Len(r.lines) :
                 MovedBy(r.pre.products[r.lines[k].productId],
                         products[r.lines[k].productId], -r.lines[k].quantity)
            /\ r.id \in DOMAIN invoices
            /\ LET invoice == invoices[r.id]
               IN /\ invoice.total = SumTotals(invoice.products)
                  /\ invoice.rest = invoice.total - invoice.remise - invoice.advance
                  /\ invoice.status = IF invoice.rest = 0 THEN "paid" ELSE "not paid"
       ELSE products = r.pre.products /\ invoices = r.pre.invoices

\* updateInvoice: newQuantity - originalQuantity for a line of the request,
\* against the invoice as stored when the request started
Diff(r, line) ==
  line.quantity - OriginalQuantity(r.pre.invoices[r.target], line.productId)

\* C17: a successful updateInvoice that replaces the product lines of an invoice
\* whose stock was debited (status 'paid' or 'not paid') moves the
\* stock of each line's product by -(newQuantity - originalQuantity) and leaves
\* the product of a line with diff = 0 untouched; when a line has diff > 0 and
\* currentStock < diff the update fails and changes no invoice and no product.
C17_UpdateAppliesDelta ==
  \A s \in Slots :
    LET r == reqs[s] IN
    (DoneOp(s, "updateInvoice") /\ r.target \in DOMAIN r.pre.invoices /\ r.lines # <<>>
       /\ r.pre.invoices[r.target].status \in {"paid", "not paid"})
    => /\ r.res.success
            => \A k \in 1..Len(r.lines) :
                 LET p == r.lines[k].productId IN
                 /\ MovedBy(r.pre.products[p], products[p], -Diff(r, r.lines[k]))
                 /\ Diff(r, r.lines[k]) = 0 => products[p] = r.pre.products[p]
       /\ (\E k \in 1..Len(r.lines) :
             /\ Diff(r, r.lines[k]) > 0
             /\ ReadQOrQuantity(r.pre.products[r.lines[k].productId]) < Diff(r, r.lines[k]))
            => /\ ~r.res.success
               /\ invoices = r.pre.invoices
               /\ products = r.pre.products

\* C18: createInvoice, and updateInvoice applied to an invoice that is still
\* 'pending', leave every product quantity unchanged.
C18_PendingLeavesStock ==
  \A s \in Slots :
    LET r == reqs[s] IN
    /\ DoneOp(s, "createInvoice") => products = r.pre.products
    /\ (DoneOp(s, "updateInvoice") /\ r.target \in DOMAIN r.pre.invoices
          /\ r.pre.invoices[r.target].status = "pending")
       => products = r.pre.products

\* item k is the last item of the call that was written for its product
LastWritten(r, k) ==
  \A j \in (k + 1)..Len(r.results) :
    ~(r.results[j].success /\ r.results[j].productId = r.results[k].productId)

\* no item of the call was written for product p
Unwritten(r, p) ==
  \A j \in 1..Len(r.results) : ~(r.results[j].success /\ r.results[j].productId = p)

\* C19: addQuantitiesToProducts returns one result per input item; an item whose
\* product does not exist yields success = false with error 'Product not found'
\* and no stock change, and every other item of the call is committed with
\* newQuantity = oldQuantity + amount (the product holds the last one written).
C19_AddReportsMissing ==
  \A s \in Slots :
    LET r == reqs[s] IN
    DoneOp(s, "addQuantities")
    => /\ r.res.success
       /\ Len(r.results) = Len(r.lines)
       /\ DOMAIN products = DOMAIN r.pre.products
       /\ \A p \in DOMAIN products : Unwritten(r, p) => products[p] = r.pre.products[p]
       /\ \A k \in 1..Len(r.lines) :
            LET item == r.lines[k]
                result == r.results[k]
            IN /\ result.productId = item.productId
               /\ IF item.productId \notin DOMAIN r.pre.products
                  THEN ~result.success /\ result.error = "Product not found"
                  ELSE /\ result.success
                       /\ result.oldQuantity = ReadQ(r.pre.products[item.productId])
                       /\ result.newQuantity = result.oldQuantity + item.quantity
                       /\ LastWritten(r, k)
                            => /\ products[item.productId].hasQ
                               /\ products[item.productId].q = result.newQuantity

\* C19, its case: a call answered with an unknown product next to a known one
C19_Witness ==
  \E s \in Slots :
    /\ DoneOp(s, "addQuantities")
    /\ \E j, k \in 1..Len(reqs[s].lines) :
         /\ reqs[s].lines[j].productId = PX
         /\ reqs[s].lines[k].productId \in ProductIds
         /\ products[reqs[s].lines[k].productId] # reqs[s].pre.products[reqs[s].lines[k].productId]

\* C20: removeQuantitiesFromProducts writes an item only when the product's
\* current quantity is >= the requested amount; an item with insufficient stock
\* yields success = false with an 'Insufficient stock' error and no write for it,
\* and its sibling items are committed with newQuantity = oldQuantity - amount.
C20_RemoveReportsInsufficient ==
  \A s \in Slots :
    LET r == reqs[s] IN
    DoneOp(s, "removeQuantities")
    => /\ r.res.success
       /\ Len(r.results) = Len(r.lines)
       /\ \A p \in DOMAIN products : Unwritten(r, p) => products[p] = r.pre.products[p]
       /\ \A k \in 1..Len(r.lines) :
            LET item == r.lines[k]
                result == r.results[k]
                current == ReadQOrQuantity(r.pre.products[item.productId])
            IN item.productId \in DOMAIN r.pre.products
               => IF current < item.quantity
                  THEN ~result.success /\ result.error = "Insufficient stock"
                  ELSE /\ result.success
                       /\ result.oldQuantity = current
                       /\ result.newQuantity = current - item.quantity
                       /\ LastWritten(r, k)
                            => /\ products[item.productId].q = result.newQuantity
                               /\ products[item.productId].quantity = result.newQuantity

\* C20, its case: a call answered with an item short of stock next to one written
C20_Witness ==
  \E s \in Slots :
    /\ DoneOp(s, "removeQuantities")
    /\ \E j, k \in 1..Len(reqs[s].results) :
         /\ ~reqs[s].results[j].success
         /\ reqs[s].results[j].error = "Insufficient stock"
         /\ reqs[s].results[k].success
         /\ products # reqs[s].pre.products

\* a request that called the ledger directly and was answered
DoneLedgerCall(s) == DoneOp(s, "addQuantities") \/ DoneOp(s, "removeQuantities")

\* C21: when the batch commit of addQuantitiesToProducts or
\* removeQuantitiesFromProducts fails at the store, the call fails as a whole
\* and every product is as it was before the call; a call that did not fail
\* returns its list of per-item results.
C21_CommitFailureKeepsNothing ==
  \A s \in Slots :
    LET r == reqs[s] IN
    DoneLedgerCall(s)
    => IF r.res.success
       THEN Len(r.results) = Len(r.lines)
       ELSE /\ r.res.errors = {"commit failed"}
            /\ products = r.pre.products

\* C21, its case: a call whose commit failed with a write staged
C21_Witness ==
  \E s \in Slots :
    /\ DoneLedgerCall(s)
    /\ ~reqs[s].res.success
    /\ reqs[s].batch # <<>>
    /\ ApplyBatch(reqs[s].pre.products, reqs[s].batch) # reqs[s].pre.products

\* the error the validation loop of createStockMovement owes a line, "" for a
\* line that is valid against the store as the request found it
LineError(r, line) ==
  IF line.quantity <= 0 THEN "Invalid product or quantity"
  ELSE IF line.productId \notin DOMAIN r.pre.products THEN "Product not found"
  ELSE IF r.type = "distribution" /\ Overdraws(r.pre, line) THEN "Insufficient stock"
  ELSE ""

LineErrors(r) == {LineError(r, r.lines[k]) : k \in 1..Len(r.lines)} \ {""}

\* C22: a createStockMovement call that fails validation (bad type, no products,
\* blank stockManager, missing department or supplier, invalid or unknown
\* product line, insufficient stock) changes no product, writes no movement
\* document and leaves the counter alone; the failure carries the errors of all
\* its lines together.
C22_RejectedHasNoEffect ==
  \A s \in Slots :
    LET r == reqs[s]
        header == HeaderError(r.type, r.lines, r.stockManager, r.hasParty)
    IN (DoneOp(s, "createStockMovement") /\ (header # "" \/ LineErrors(r) # {}))
       => /\ ~r.res.success
          /\ r.res.errors = IF header # "" THEN {header} ELSE LineErrors(r)
          /\ products = r.pre.products
          /\ movements = r.pre.movements
          /\ counters = r.pre.counters

\* C22, its case: a rejected call with a valid line and two lines in error
C22_Witness ==
  \E s \in Slots :
    /\ DoneOp(s, "createStockMovement")
    /\ HeaderError(reqs[s].type, reqs[s].lines, reqs[s].stockManager, reqs[s].hasParty) = ""
    /\ Cardinality(LineErrors(reqs[s])) >= 2

\* the lines a checking invoice flow works on: those of the request, or those
\* of the stored invoice for confirmInvoice
CheckedLines(r) ==
  IF r.op = "confirmInvoice" THEN r.pre.invoices[r.target].products ELSE r.lines

\* a line the flow must refuse, against the store as the request found it
LineRefused(r, line) ==
  LET known == line.productId \in DOMAIN r.pre.products
      doc == r.pre.products[line.productId]
  IN \/ ~known
     \/ r.op = "createConfirmedInvoice"
          /\ \/ ReadQOrQuantity(doc) < line.quantity
             \/ doc.hasExpiry /\ doc.expiryDate < now
             \/ doc.price <= 0
     \/ r.op = "confirmInvoice" /\ ReadQOrQuantity(doc) < line.quantity
     \/ r.op = "updateInvoice"
          /\ Diff(r, line) > 0 /\ ReadQOrQuantity(doc) < Diff(r, line)

\* a checking flow that was answered for an invoice (or, creating, for a client)
CheckingFlowDone(s) ==
  \/ DoneOp(s, "createConfirmedInvoice")
  \/ (DoneOp(s, "updateInvoice") \/ DoneOp(s, "confirmInvoice"))
       /\ reqs[s].target \in DOMAIN reqs[s].pre.invoices

Refused(r) ==
  \/ r.op = "createConfirmedInvoice" /\ r.client \notin Clients
  \/ \E k \in 1..Len(CheckedLines(r)) : LineRefused(r, CheckedLines(r)[k])

\* C23: createConfirmedInvoice, updateInvoice and confirmInvoice called with a
\* line that fails a check (unknown client or product, insufficient stock,
\* expired product, non-positive price) fail, and a failed call leaves every
\* product and the invoice documents exactly as before, also when earlier
\* lines of the request were valid.
C23_RefusedChangesNothing ==
  \A s \in Slots :
    LET r == reqs[s] IN
    CheckingFlowDone(s)
    => /\ Refused(r) => ~r.res.success
       /\ ~r.res.success => products = r.pre.products /\ invoices = r.pre.invoices

\* C23, its case: a refused call whose first line was valid and whose second
\* line names an unknown product
C23_Witness ==
  \E s \in Slots :
    LET r == reqs[s] IN
    /\ CheckingFlowDone(s)
    /\ ~r.res.success
    /\ Len(CheckedLines(r)) >= 2
    /\ ~LineRefused(r, CheckedLines(r)[1])
    /\ CheckedLines(r)[2].productId = PX

\* the last id issued in this step is a sequential one of the kind
IssuedNow(kind) ==
  /\ Len(issued') = Len(issued) + 1
  /\ issued'[Len(issued')].kind = kind
  /\ issued'[Len(issued')].sequential

\* C24: the count of each counter document never decreases; it changes only in
\* the step that issues a sequential id of its kind, and that step raises it by
\* exactly 1 (to 1 when there was no counter document); no other step of any
\* creation or deletion, accepted, rejected or failed, changes it.
C24_CounterCountsIssuances ==
  [][\A kind \in DOMAIN counters :
       LET before == IF counters[kind].exists THEN counters[kind].count ELSE 0
       IN IF IssuedNow(kind)
          THEN counters'[kind] = [exists |-> TRUE, count |-> before + 1]
          ELSE counters'[kind] = counters[kind]]_vars

\* C24, its case: an id was issued from a counter document that did not exist,
\* a creation lost its id to a failure and a creation was rejected
C24_Witness ==
  /\ counters.stockMovements.exists
  /\ \E i \in 1..Len(issued) : ~issued[i].sequential
  /\ \E s \in Slots : DoneOp(s, "createStockMovement") /\ ~reqs[s].res.success

\* the prefix of the ids of what a creation creates
IdPrefix(op) ==
  CASE op = "createStockMovement" -> "MOV"
    [] op = "createProduct" -> "prod-"
    [] OTHER -> "INV-"

\* an id of the degraded form: its suffix starts with a letter of the clock
IsDegraded(id) == id.suffix # <<>> /\ Head(id.suffix) > 9

\* the documents a creation adds to
CollectionOf(op, prods, movs, invs) ==
  CASE op = "createStockMovement" -> DOMAIN movs
    [] op = "createProduct" -> DOMAIN prods
    [] OTHER -> DOMAIN invs

\* C25: when the counter transaction or the scan of the invoices fails, the
\* issuance still hands the creation an id with the prefix of its kind, of the
\* degraded form, the counters are unchanged and the creation goes on with that
\* id: when it succeeds its document is stored under it.
C25_IssuanceNeverFails ==
  [][\A s \in Slots :
       LET r == reqs[s]
           r1 == reqs'[s]
       IN /\ (r.pc \in {"txCommit", "scanInvoices"} /\ faults' < faults)
             => /\ r1.pc \notin {"done", r.pc}
                /\ r1.id.prefix = IdPrefix(r.op)
                /\ IsDegraded(r1.id)
                /\ counters' = counters
          /\ (r.pc \in {"saveDoc", "saveInvoice"} /\ r1.pc = "done" /\ r1.res.success)
             => r.id \in CollectionOf(r.op, products', movements', invoices')]_vars

\* C25, its case: a creation that succeeded with an id of the degraded form
C25_Witness ==
  \E s \in Slots :
    LET r == reqs[s] IN
    /\ r.pc = "done"
    /\ r.op \in {"createStockMovement", "createProduct", "createInvoice"}
    /\ r.res.success
    /\ IsDegraded(r.id)
    /\ r.id \in CollectionOf(r.op, products, movements, invoices)

\* two answered stock_in movements of one line that both succeeded after their
\* ledger calls read the same stock of the same product
ReadSameStock(s, t) ==
  /\ s # t
  /\ DoneOp(s, "createStockMovement") /\ reqs[s].res.success
  /\ DoneOp(t, "createStockMovement") /\ reqs[t].res.success
  /\ reqs[s].results[1].productId = reqs[t].results[1].productId
  /\ reqs[s].results[1].oldQuantity = reqs[t].results[1].oldQuantity

\* C26: two overlapping createStockMovement requests on one product, with
\* amounts a and b, that both read the stock before either committed both
\* report success, and the product ends with the stock read plus a or plus b,
\* never plus a + b: one of the two updates is lost.
C26_OverlapLosesUpdate ==
  \A s, t \in Slots :
    ReadSameStock(s, t)
    => LET old == reqs[s].results[1].oldQuantity
           a == reqs[s].lines[1].quantity
           b == reqs[t].lines[1].quantity
           stock == ReadQ(products[reqs[s].results[1].productId])
       IN stock \in {old + a, old + b} /\ stock # old + a + b

\* C26, its case: both requests answered with success after reading the same stock
C26_Witness == \E s, t \in Slots : ReadSameStock(s, t)

\* C27: a committed movement is reversed at most once: of two deleteMovement
\* requests for the same movement, also overlapping ones, at most one succeeds.
C27_ReversedAtMostOnce ==
  \A s, t \in Slots :
    (s # t /\ DoneOp(s, "deleteMovement") /\ DoneOp(t, "deleteMovement")
       /\ reqs[s].target = reqs[t].target /\ reqs[s].res.success)
    => ~reqs[t].res.success

\* C28: deleteMovement on an id for which no movement document exists fails
\* with code MOVEMENT_NOT_FOUND and changes no product quantity and no document.
C28_UnknownMovementNotFound ==
  \A s \in Slots :
    LET r == reqs[s] IN
    (DoneOp(s, "deleteMovement") /\ r.target \notin DOMAIN r.pre.movements)
    => /\ ~r.res.success
       /\ r.res.code = "MOVEMENT_NOT_FOUND"
       /\ products = r.pre.products
       /\ movements = r.pre.movements
       /\ invoices = r.pre.invoices
       /\ counters = r.pre.counters

\* C28, its case: a deletion answered for an unknown id while movements are stored
C28_Witness ==
  \E s \in Slots :
    /\ DoneOp(s, "deleteMovement")
    /\ reqs[s].target \notin DOMAIN reqs[s].pre.movements
    /\ DOMAIN reqs[s].pre.movements # {}

\* C29: invoice ids issued one after the other have strictly increasing numeric
\* suffixes over the whole history: no invoice id is issued twice, also when
\* invoices, the one with the highest number included, are deleted in between.
C29_InvoiceIdsIncrease ==
  \A i, j \in 1..Len(issued) :
    (i < j /\ issued[i].kind = "invoices" /\ issued[j].kind = "invoices"
       /\ issued[i].sequential /\ issued[j].sequential)
    => SuffixNumber(issued[j].id) > SuffixNumber(issued[i].id)

\* the value of invoice lines: the sum of quantity * unitPrice
RECURSIVE LinesValue(_)
LinesValue(ls) ==
  IF ls = <<>> THEN 0 ELSE Head(ls).quantity * Head(ls).unitPrice + LinesValue(Tail(ls))

StockFields(doc) == <<doc.hasQ, doc.q, doc.hasQuantity, doc.quantity>>

\* C31: round trip: createStockMovement followed by a successful deleteMovement
\* of it within 24 hours, with no other request in between, returns every
\* quantity field of every affected product to its value before the creation
\* (here the first two requests, over products as createProduct stores them).
C31_RoundTripRestoresStock ==
  \A s \in Slots :
    (DoneOp(s, "deleteMovement") /\ reqs[s].res.success /\ nops = 2)
    => \A p \in ProductIds : StockFields(products[p]) = StockFields(NewProduct(1))

\* C32: the stock createStockMovement validates against and snapshots as a
\* line's previousStock is the value the ledger reads as oldQuantity when it
\* applies that line, with no request in between.
C32_ValidationReadsLedgerStock ==
  \A s \in Slots :
    LET r == reqs[s] IN
    (DoneOp(s, "createStockMovement") /\ r.res.success)
    => \A k \in 1..Len(r.results) :
         r.results[k].success => r.results[k].oldQuantity = r.valid[k].previousStock

\* the sum of the amounts of the items of a call reported as successful for p
RECURSIVE AppliedAmount(_, _, _)
AppliedAmount(r, p, k) ==
  IF k = 0 THEN 0
  ELSE AppliedAmount(r, p, k - 1)
       + (IF r.results[k].success /\ r.results[k].productId = p THEN r.lines[k].quantity ELSE 0)

\* the items of a call reported as successful for p
AppliedItems(r, p) ==
  {k \in 1..Len(r.results) : r.results[k].success /\ r.results[k].productId = p}

\* C33: when one call to addQuantitiesToProducts or removeQuantitiesFromProducts
\* holds two or more items for the same product, the product's final quantity
\* is its old quantity plus (resp. minus) the sum of the amounts of all items
\* reported as successful for it.
C33_RepeatedItemsAddUp ==
  \A s \in Slots :
    LET r == reqs[s] IN
    DoneLedgerCall(s)
    => \A p \in DOMAIN products :
         Cardinality(AppliedItems(r, p)) >= 2
         => LET old == r.results[CHOOSE k \in AppliedItems(r, p) : TRUE].oldQuantity
                sum == AppliedAmount(r, p, Len(r.results))
            IN products[p].q = IF r.op = "addQuantities" THEN old + sum ELSE old - sum

\* the sum of the quantities of the lines that name p
RECURSIVE LineSum(_, _)
LineSum(lines, p) ==
  IF lines = <<>> THEN 0
  ELSE (IF Head(lines).productId = p THEN Head(lines).quantity ELSE 0) + LineSum(Tail(lines), p)

\* C34: for every committed distribution movement and every product, the sum of
\* the quantities of the movement's lines for that product is at most the
\* product's stock immediately before the movement (whichever field the stock is
\* read from), also when the product is on several lines.
C34_DistributionWithinStock ==
  \A s \in Slots :
    LET r == reqs[s] IN
    (DoneOp(s, "createStockMovement") /\ r.type = "distribution" /\ r.res.success
       /\ r.id \in DOMAIN movements)
    => \A p \in DOMAIN r.pre.products :
         \/ LineSum(r.lines, p) <= ReadQuantity(r.pre.products[p])
         \/ LineSum(r.lines, p) <= ReadQOrQuantity(r.pre.products[p])

\* stock + quantity on the invoice is the same for p before and after the
\* request, in whichever way the stock is read off the document
Conserved(r, p) ==
  LET before == r.pre.products[p]
      after == products[p]
      d == LineSum(r.pre.invoices[r.target].products, p) - LineSum(invoices[r.target].products, p)
  IN \/ ReadQOrQuantity(after) = ReadQOrQuantity(before) + d
     \/ ReadQ(after) = ReadQ(before) + d
     \/ ReadQuantity(after) = ReadQuantity(before) + d

\* C35: conservation on invoice edit: after a successful updateInvoice that
\* replaces the lines of a stock-debited invoice, for every product the stock
\* plus the quantity of that product on the invoice is the same as before the
\* call, also for a product whose line was removed and for a product on more
\* than one new line.
C35_EditConservesStock ==
  \A s \in Slots :
    LET r == reqs[s] IN
    (DoneOp(s, "updateInvoice") /\ r.res.success /\ r.lines # <<>>
       /\ r.target \in DOMAIN r.pre.invoices /\ r.target \in DOMAIN invoices
       /\ r.pre.invoices[r.target].status \in {"paid", "not paid"})
    => \A p \in DOMAIN r.pre.products : Conserved(r, p)

\* C36: deleting an invoice whose stock was debited returns that stock: after a
\* successful deleteInvoice on an invoice with status 'paid' or 'not paid'
\* (created by createConfirmedInvoice, or edited after its confirmation) the
\* stock of every product on the invoice is increased by the quantity of its
\* lines (whichever field the stock is read from).
C36_DeleteDebitedReturnsStock ==
  \A s \in Slots :
    LET r == reqs[s] IN
    (DoneOp(s, "deleteInvoice") /\ r.res.success /\ r.inv.status \in {"paid", "not paid"})
    => \A k \in 1..Len(r.inv.products) :
         LET p == r.inv.products[k].productId IN
         MovedBy(r.pre.products[p], products[p], LineSum(r.inv.products, p))

\* an answered deletable check of a stored movement
CheckedDeletable(s) ==
  /\ reqs[s].pc = "done"
  /\ reqs[s].op \in {"checkMovementDeletable", "canDeleteMovement"}
  /\ reqs[s].target \in DOMAIN reqs[s].pre.movements

\* C37: for the same movement and the same current time, checkMovementDeletable
\* and the canDeleteMovement controller report canDelete = true exactly when
\* deleteMovement would not fail with MOVEMENT_TOO_OLD, also at an age of
\* exactly 24 hours; a deletion answers MOVEMENT_TOO_OLD exactly when the
\* movement is too old; neither check changes any document.
C37_CheckAgreesWithDelete ==
  \A s \in Slots :
    LET r == reqs[s] IN
    /\ CheckedDeletable(s)
         => /\ r.res.success
            /\ r.canDelete = ~TooOld(r.pre.movements[r.target].timestamp, now)
            /\ r.canDelete = (Age(r) <= WindowHours)
    /\ (reqs[s].pc = "done" /\ r.op \in {"checkMovementDeletable", "canDeleteMovement"})
         => /\ products = r.pre.products
            /\ movements = r.pre.movements
            /\ invoices = r.pre.invoices
            /\ counters = r.pre.counters
    /\ (DoneOp(s, "deleteMovement") /\ r.target \in DOMAIN r.pre.movements)
         => (r.res.code = "MOVEMENT_TOO_OLD") = (Age(r) > WindowHours)

\* C37, its case: a check answered for a movement that is exactly 24 hours old
C37_Witness ==
  \E s \in Slots : CheckedDeletable(s) /\ Age(reqs[s]) = WindowHours /\ reqs[s].canDelete

StatusFields(invoice, other) ==
  [invoice EXCEPT !.status = other.status, !.hasPaid = other.hasPaid,
                  !.paid = other.paid, !.rest = other.rest]

====
